---- MODULE Spec2Model ----
(***************************************************************************)
(* Model of the terrain generation pipeline of cosmio: the isometric       *)
(* projection (toIsoCells), the epic landmark selection                    *)
(* (selectEpicBuildings), the level mapping (computeLevel10), the asset    *)
(* placement (getLevelPool, computeRichness, selectAssets), the seeding of *)
(* the stages and the biome map (generateBiomeMap).                        *)
(*                                                                         *)
(* Numbers.  The code works on JavaScript doubles; the model is exact.     *)
(*   - a value of rng() is k/1000, written as the integer k (0..999);      *)
(*   - a richness is the fraction num/den, written [num |-> , den |-> ];   *)
(*   - minRichness is in hundredths (0.45 is 45), baseChance in            *)
(*     thousandths (0.018 is 18), streakMultiplier in hundredths           *)
(*     (1.15 is 115).                                                      *)
(* A map key `${week},${day}` is the pair <<week, day>>.                   *)
(***************************************************************************)
EXTENDS Integers, Sequences, FiniteSets, TLC

VARIABLES
  \* ---- toIsoCells (blocks.ts) ----
  gridCells,        \* argument cells: GridCell10[], a sequence of [level10 |-> 0..9]
  originX,          \* argument originX
  originY,          \* argument originY
  isoResult,        \* the returned IsoCell[] (<<>> until the call returns)
  isoPc,            \* "call" before toIsoCells runs, "done" after, "idle" in other specs
  \* ---- selectEpicBuildings (epics.ts) ----
  isoCells,         \* argument isoCells: IsoCell[] (level100 variant)
  stats,            \* argument stats: [total, longestStreak, currentStreak]
  biomeMap,         \* argument biomeMap: the map key -> [isRiver, isPond], or NoBiomeMap
  rngStream,        \* the values rng() yields, fixed by the seed; repeated cyclically
  cellMap,          \* const cellMap (the empty map until it is built)
  draws,            \* number of rng() calls made so far
  passedTiers,      \* const passedTiers
  streakMultiplier, \* let streakMultiplier, in hundredths
  shuffled,         \* const shuffled
  shuffleI,         \* loop variable i of the Fisher-Yates loop
  scanPos,          \* number of cells of shuffled the scan loop has taken
  placed,           \* const placed
  epicCells,        \* const epicCells
  scanLog,          \* per scanned cell, what the loop body did (observation only)
  epicPc,           \* "start", "shuffle", "scan", "done"; "idle" in other specs
  \* ---- computeLevel10 (theme-redesign.md) ----
  lvCountA,         \* argument count of the first call
  lvCountB,         \* argument count of the second call (lvCountA <= lvCountB)
  lvMaxCount,       \* argument maxCount of both calls
  lvLevelA,         \* result of the first call (-1 until it returns)
  lvLevelB,         \* result of the second call (-1 until it returns)
  lvPoolA,          \* getLevelPool of the first level (NoPool until it returns)
  lvPoolB,          \* getLevelPool of the second level (NoPool until it returns)
  lvPc,             \* "call" before the calls, "done" after computeLevel10,
                    \* "pooled" after getLevelPool, "idle" in other specs
  \* ---- selectAssets (assets.ts, 10-level) ----
  asCells,          \* argument isoCells: IsoCell[] as toIsoCells returns it
  asStream,         \* the values rng() yields, fixed by the seed; repeated cyclically
  asCellMap,        \* const cellMap (the empty map until it is built)
  asDraws,          \* number of rng() calls made so far
  asPos,            \* number of cells the for loop has taken
  assets,           \* const assets: PlacedAsset[]
  asLog,            \* per cell, what the loop body did (observation only)
  asPc,             \* "start", "loop", "done"; "idle" in other specs
  \* ---- seeding of the stages ----
  masterSeed,       \* the seed every stage is called with
  stageSeed,        \* per stage, the argument its seededRandom(...) call was given
  \* ---- two calls of selectEpicBuildings ----
  callNo,           \* 1 during the first call, 2 during the second; 0 in other specs
  firstReturn,      \* what the first call returned (NoReturn until it has)
  \* ---- generateBiomeMap (biomes.ts) ----
  bmWeeks,          \* argument weeks
  bmDays,           \* argument days
  bmNoise,          \* the values the noise yields, fixed by the seed; repeated cyclically
  bmRivers,         \* the river cells traced so far, in the order they were marked
  bmMap,            \* the returned map key -> BiomeContext (the empty map until returned)
  bmPc,             \* "start", "traced", "done"; "idle" in other specs
  \* ---- renderWaterfalls (effects.ts) ----
  wfCells,          \* argument isoCells
  wfBiome,          \* argument biomeMap: key -> [isRiver, isPond]
  wfSelected,       \* const selected (<<>> until it is computed)
  wfPos,            \* number of cells of selected the loop has taken
  animIdx,          \* let animIdx
  wfParts,          \* const parts: per waterfall the kinds of its elements, in order
  wfPc,             \* "start", "loop", "done"; "idle" in other specs
  \* selectEvenly (effects.ts)
  seItems,          \* the argument items
  seMax,            \* the argument max
  seI,              \* let i of the loop
  seResult,         \* const result; the value returned once sePc = "done"
  sePc,             \* "start", "loop", "done"; "idle" in other specs
  \* findComponents (constellation theme)
  fcLevels,         \* the level of every day of the grid, by <<week, day>>
  fcIndex,          \* the keys of index, in insertion order
  fcUf,             \* const uf: [parent, rank, size], maps over the keys
  fcPos,            \* number of cells of index.values() the loop has taken
  fcGroups,         \* the value returned once fcPc = "done"
  fcPc              \* "start", "loop", "done"; "idle" in other specs

isoVars == <<gridCells, originX, originY, isoResult, isoPc>>
epicVars == <<isoCells, stats, biomeMap, rngStream, cellMap, draws, passedTiers,
              streakMultiplier, shuffled, shuffleI, scanPos, placed, epicCells,
              scanLog, epicPc>>
levelVars == <<lvCountA, lvCountB, lvMaxCount, lvLevelA, lvLevelB, lvPoolA, lvPoolB, lvPc>>
\* the variables of the parts added after the projection and the landmarks
assetVars == <<asCells, asStream, asCellMap, asDraws, asPos, assets, asLog, asPc>>
seedVars == <<masterSeed, stageSeed>>
twiceVars == <<callNo, firstReturn>>
biomeVars == <<bmWeeks, bmDays, bmNoise, bmRivers, bmMap, bmPc>>
waterfallVars == <<wfCells, wfBiome, wfSelected, wfPos, animIdx, wfParts, wfPc>>
selectVars == <<seItems, seMax, seI, seResult, sePc>>
componentVars == <<fcLevels, fcIndex, fcUf, fcPos, fcGroups, fcPc>>
waterfallFrame == <<isoVars, epicVars, levelVars, assetVars, seedVars, twiceVars, biomeVars, selectVars, componentVars>>
selectFrame == <<isoVars, epicVars, levelVars, assetVars, seedVars, twiceVars, biomeVars, waterfallVars, componentVars>>
componentFrame == <<isoVars, epicVars, levelVars, assetVars, seedVars, twiceVars, biomeVars, waterfallVars, selectVars>>
auxVars == <<levelVars, assetVars, seedVars, twiceVars, biomeVars, waterfallVars, selectVars, componentVars>>
\* what the actions of one part leave unchanged
levelFrame == <<isoVars, epicVars, assetVars, seedVars, twiceVars, biomeVars, waterfallVars, selectVars, componentVars>>
assetFrame == <<isoVars, epicVars, levelVars, seedVars, twiceVars, biomeVars, waterfallVars, selectVars, componentVars>>
biomeFrame == <<isoVars, epicVars, levelVars, assetVars, seedVars, twiceVars, waterfallVars, selectVars, componentVars>>
seedFrame == <<isoVars, epicVars, levelVars, assetVars, twiceVars, biomeVars, waterfallVars, selectVars, componentVars>>
vars == <<isoVars, epicVars, auxVars>>

(***************************************************************************)
(* Bounds of the model                                                     *)
(***************************************************************************)
\* longest cell list given to toIsoCells
MaxCells == 15
\* number of cells of the grid the landmark selection runs over
EpicCells == 21
\* period of the stream of random values
StreamLen == 3
\* largest contribution count given to computeLevel10
MaxCount == 60
\* number of cells of the grid the asset selection runs over
AssetCells == 21
\* largest master seed
MaxSeed == 15
\* largest number of weeks and of days given to generateBiomeMap
MaxWeeks == 4
MaxDays == 7

(***************************************************************************)
(* blocks.ts: isometric projection                                         *)
(***************************************************************************)
THW == 7
THH == 3
DAYS_PER_WEEK == 7

\* variant: the height of level 6 is below the height of level 5
HEIGHTS_WITH_DIP == <<0, 0, 3, 5, 7, 9, 8, 14, 17, 20>>
HEIGHTS == <<0, 0, 3, 5, 7, 9, 11, 14, 17, 20>>

\* const numWeeks = Math.ceil(cells.length / 7)
numWeeksOf(len) == (len + DAYS_PER_WEEK - 1) \div DAYS_PER_WEEK

\* variant: the inner loop stops one day early
innerLoopEndsShortWeek(len, day, cellIndex) ==
  day >= DAYS_PER_WEEK - 1 \/ cellIndex >= len
\* the inner loop ends: day < 7 fails, or `if (cellIndex >= cells.length) break`
innerLoopEnds(len, day, cellIndex) ==
  day >= DAYS_PER_WEEK \/ cellIndex >= len

\* The two nested loops of the first pass: the (week, day) given to each
\* cellIndex, in push order.  Len(acc) is cellIndex.
RECURSIVE IsoLoop(_, _, _, _, _)
IsoLoop(len, numWeeks, week, day, acc) ==
  IF week >= numWeeks THEN acc
  ELSE IF innerLoopEnds(len, day, Len(acc))
       THEN IsoLoop(len, numWeeks, week + 1, 0, acc)
       ELSE IsoLoop(len, numWeeks, week, day + 1, Append(acc, <<week, day>>))

IsoPositions(len) == IsoLoop(len, numWeeksOf(len), 0, 0, <<>>)

\* variant: isoX computed from the sum instead of the difference
isoXSwapped(ox, week, day) == ox + (week + day) * THW
\* const isoX = originX + (week - day) * THW
isoXOf(ox, week, day) == ox + (week - day) * THW

\* const isoY = originY + (week + day) * THH
isoYOf(oy, week, day) == oy + (week + day) * THH

\* variant: a comparator that orders by week alone
compareDrawOrderByWeek(a, b) == a.week - b.week
\* the comparator given to isoCells.sort
compareDrawOrder(a, b) ==
  LET sumA == a.week + a.day
      sumB == b.week + b.day
  IN IF sumA # sumB THEN sumA - sumB ELSE a.week - b.week

\* Array.prototype.sort is stable: an element goes after every element that
\* does not compare greater than it.
RECURSIVE InsertSorted(_, _)
InsertSorted(sorted, x) ==
  IF sorted = <<>> THEN <<x>>
  ELSE IF compareDrawOrder(sorted[Len(sorted)], x) <= 0
       THEN Append(sorted, x)
       ELSE Append(InsertSorted(SubSeq(sorted, 1, Len(sorted) - 1), x),
                   sorted[Len(sorted)])

RECURSIVE SortDrawOrder(_)
SortDrawOrder(s) ==
  IF s = <<>> THEN <<>>
  ELSE InsertSorted(SortDrawOrder(SubSeq(s, 1, Len(s) - 1)), s[Len(s)])

\* toIsoCells of blocks.ts (10-level cells, heights from the palette table)
toIsoCells(cells, heights, ox, oy) ==
  LET pos == IsoPositions(Len(cells))
      pushed == [i \in 1..Len(pos) |->
                   [week    |-> pos[i][1],
                    day     |-> pos[i][2],
                    level10 |-> cells[i].level10,
                    height  |-> heights[cells[i].level10 + 1],
                    isoX    |-> isoXOf(ox, pos[i][1], pos[i][2]),
                    isoY    |-> isoYOf(oy, pos[i][1], pos[i][2])]]
  IN SortDrawOrder(pushed)

\* toIsoCells of the 100-level blocks module: the same loops and sort, cells
\* carry level100 (height and colors, which come from the palette, are left out)
toIsoCells100(cells, ox, oy) ==
  LET pos == IsoPositions(Len(cells))
      pushed == [i \in 1..Len(pos) |->
                   [week     |-> pos[i][1],
                    day      |-> pos[i][2],
                    level100 |-> cells[i].level100,
                    isoX     |-> isoXOf(ox, pos[i][1], pos[i][2]),
                    isoY     |-> isoYOf(oy, pos[i][1], pos[i][2])]]
  IN SortDrawOrder(pushed)

(***************************************************************************)
(* epics.ts: tier configuration and building definitions                   *)
(***************************************************************************)
\* the order both tier loops go through: ['legendary', 'epic', 'rare']
TIER_ORDER == <<"legendary", "epic", "rare">>

\* minRichness in hundredths, baseChance in thousandths
TIER_CONFIG ==
  [rare      |-> [minLevel |-> 88, minRichness |-> 45, baseChance |-> 18],
   epic      |-> [minLevel |-> 93, minRichness |-> 55, baseChance |-> 8],
   legendary |-> [minLevel |-> 97, minRichness |-> 65, baseChance |-> 3]]

\* TIER_CONFIG[tier].statsGate(s)
statsGate(tier, s) ==
  CASE tier = "rare"      -> s.total >= 200 \/ s.longestStreak >= 7
    [] tier = "epic"      -> s.total >= 500 /\ s.longestStreak >= 14
    [] tier = "legendary" -> s.total >= 1000 /\ s.longestStreak >= 30

EPIC_BUILDINGS ==
  << [type |-> "mountFuji", tier |-> "rare"],
     [type |-> "colosseum", tier |-> "rare"],
     [type |-> "giantSequoia", tier |-> "rare"],
     [type |-> "coralReef", tier |-> "rare"],
     [type |-> "pagoda", tier |-> "rare"],
     [type |-> "torii", tier |-> "rare"],
     [type |-> "geyser", tier |-> "rare"],
     [type |-> "hotSpring", tier |-> "rare"],
     [type |-> "eiffelTower", tier |-> "rare"],
     [type |-> "grandCanyon", tier |-> "rare"],
     [type |-> "windmillGrand", tier |-> "rare"],
     [type |-> "oasis", tier |-> "rare"],
     [type |-> "volcano", tier |-> "rare"],
     [type |-> "giantMushroom", tier |-> "rare"],
     [type |-> "aurora", tier |-> "epic"],
     [type |-> "tajMahal", tier |-> "epic"],
     [type |-> "giantWaterfall", tier |-> "epic"],
     [type |-> "stBasils", tier |-> "epic"],
     [type |-> "bambooGrove", tier |-> "epic"],
     [type |-> "operaHouse", tier |-> "epic"],
     [type |-> "glacierPeak", tier |-> "epic"],
     [type |-> "bioluminescentPool", tier |-> "epic"],
     [type |-> "meteorCrater", tier |-> "epic"],
     [type |-> "bonsaiGiant", tier |-> "epic"],
     [type |-> "floatingIsland", tier |-> "legendary"],
     [type |-> "crystalSpire", tier |-> "legendary"],
     [type |-> "dragonNest", tier |-> "legendary"],
     [type |-> "worldTree", tier |-> "legendary"],
     [type |-> "sakuraEternal", tier |-> "legendary"],
     [type |-> "ancientPortal", tier |-> "legendary"] >>

MAX_EPIC_BUDGET == 3
MIN_MANHATTAN_DISTANCE == 3

Abs(x) == IF x < 0 THEN -x ELSE x

manhattanDistance(a, w, d) == Abs(a.week - w) + Abs(a.day - d)

\* the key `${week},${day}` of cellMap, biomeMap and epicCells
cellKey(week, day) == <<week, day>>

\* biomeMap === undefined; a map that is given is [defined |-> TRUE, at |-> f]
\* with f the function from the keys it holds to their BiomeContext
NoBiomeMap == [defined |-> FALSE, at |-> <<>>]
BiomeMapOf(f) == [defined |-> TRUE, at |-> f]

(***************************************************************************)
(* epics.ts: selectEpicBuildings                                           *)
(***************************************************************************)
\* cellMap: one entry per key, a later cell of the list replacing an earlier one
buildCellMap(cells) ==
  LET keyOf(i) == cellKey(cells[i].week, cells[i].day)
      keys == {keyOf(i) : i \in 1..Len(cells)}
  IN [k \in keys |->
        cells[CHOOSE i \in 1..Len(cells) :
                /\ keyOf(i) = k
                /\ \A j \in (i + 1)..Len(cells) : keyOf(j) # k]]

RECURSIVE SumLevel100(_, _)
SumLevel100(keys, map) ==
  IF keys = {} THEN 0
  ELSE LET k == CHOOSE x \in keys : TRUE
       IN map[k].level100 + SumLevel100(keys \ {k}, map)

\* computeRichness as selectEpicBuildings imports it from assets.js, over
\* level100: the neighbours' average level divided by the maximum level 99
computeRichness100(cell, map) ==
  LET around == {cellKey(cell.week + dw, cell.day + dd) : dw \in -1..1, dd \in -1..1}
                  \ {cellKey(cell.week, cell.day)}
      present == around \cap DOMAIN map
  IN IF present = {} THEN [num |-> 0, den |-> 1]
     ELSE [num |-> SumLevel100(present, map), den |-> Cardinality(present) * 99]

\* variant: every tier is added, whatever its statsGate says
computePassedTiersUngated(s) == {TIER_ORDER[t] : t \in 1..Len(TIER_ORDER)}
\* the loop that fills passedTiers
computePassedTiers(s) ==
  {tier \in {TIER_ORDER[t] : t \in 1..Len(TIER_ORDER)} : statsGate(tier, s)}

\* EPIC_BUILDINGS.filter((b) => passedTiers.has(b.tier))
eligibleBuildingsOf(passed) ==
  SelectSeq(EPIC_BUILDINGS, LAMBDA b : b.tier \in passed)

\* variant: the eligible buildings are not filtered by tier
tierBuildingsOfAnyTier(eligible, tier) == eligible

\* eligibleBuildings.filter((b) => b.tier === tier)
tierBuildingsOf(eligible, tier) ==
  SelectSeq(eligible, LAMBDA b : b.tier = tier)

\* streakMultiplier, in hundredths
computeStreakMultiplier(s) ==
  IF s.currentStreak >= 30 THEN 144
  ELSE IF s.currentStreak >= 7 THEN 115
  ELSE 100

\* the n-th value of rng(), n counted from 0
rngValue(n) == rngStream[(n % Len(rngStream)) + 1]

\* ---- Math.floor(rng() * len) in double arithmetic, rng() = k/1000 ----
\* The double nearest to k/1000 is N * 2^-(52 + s) with 2^52 <= N < 2^53.
\* the s of k/1000, 0 < k < 1000: 2^-s <= k/1000 < 2^(1-s)
RECURSIVE binadeShift(_, _)
binadeShift(k, s) == IF k * (2 ^ s) >= 1000 THEN s ELSE binadeShift(k, s + 1)

\* x * 2^t modulo 1000
RECURSIVE doubledMod(_, _)
doubledMod(x, t) == IF t = 0 THEN x % 1000 ELSE doubledMod((2 * x) % 1000, t - 1)

\* 1000 * (k/1000 * 2^(52 + s) - N): what the double of k/1000 lacks (when
\* positive) or has in excess (when negative), in thousandths of its last bit
roundingResidue(k) ==
  LET r == doubledMod(k, 52 + binadeShift(k, 1))
  IN IF r > 500 THEN r - 1000 ELSE r

\* the least g with m <= 2^g
RECURSIVE binadeAbove(_, _)
binadeAbove(m, g) == IF m <= 2 ^ g THEN g ELSE binadeAbove(m, g + 1)

\* The exact product k * len / 1000 is a whole number m and the double
\* product is a double below m: the double of k/1000 is too small, and len
\* times what it lacks is more than half the gap between m and the double
\* before it (at exactly half the product rounds to m, whose last bit is 0).
productBelowWhole(k, len) ==
  /\ k > 0
  /\ (k * len) % 1000 = 0
  /\ len * roundingResidue(k) >
       250 * (2 ^ (binadeAbove((k * len) \div 1000, 0) + binadeShift(k, 1)))

\* Math.floor(r * len) for r = k/1000, the product taken in doubles: a
\* product that is not whole is further from a whole number than the
\* rounding can move it
floorScaled(k, len) ==
  IF productBelowWhole(k, len)
  THEN ((k * len) \div 1000) - 1
  ELSE (k * len) \div 1000

\* [shuffled[i], shuffled[j]] = [shuffled[j], shuffled[i]], indices from 0
swapCells(s, i, j) ==
  [s EXCEPT ![i + 1] = s[j + 1], ![j + 1] = s[i + 1]]

\* variant: the budget test is missing from the loop
budgetReachedNever(p) == FALSE
\* variant: > in place of >=
budgetReachedOffByOne(p) == Len(p) > MAX_EPIC_BUDGET
\* if (placed.length >= MAX_EPIC_BUDGET) break
budgetReached(p) == Len(p) >= MAX_EPIC_BUDGET

\* variant: ponds are not looked at
isWaterCellRiverOnly(key) ==
  /\ biomeMap.defined
  /\ key \in DOMAIN biomeMap.at
  /\ biomeMap.at[key].isRiver
\* biome?.isRiver || biome?.isPond
isWaterCell(key) ==
  /\ biomeMap.defined
  /\ key \in DOMAIN biomeMap.at
  /\ (biomeMap.at[key].isRiver \/ biomeMap.at[key].isPond)

\* variant: the distance bound is one short
tooCloseOffByOne(p, w, d) ==
  \E i \in 1..Len(p) : manhattanDistance(p[i], w, d) < MIN_MANHATTAN_DISTANCE - 1
\* placed.some((p) => manhattanDistance(p, cell.week, cell.day) < MIN_MANHATTAN_DISTANCE)
tooClose(p, w, d) ==
  \E i \in 1..Len(p) : manhattanDistance(p[i], w, d) < MIN_MANHATTAN_DISTANCE

\* variant: every tier is held to the rare tier's minLevel
passesLevelGateRareLevel(cell, tier) == cell.level100 >= TIER_CONFIG["rare"].minLevel
\* Gate 1 passes: not (cell.level100 < config.minLevel)
passesLevelGate(cell, tier) == cell.level100 >= TIER_CONFIG[tier].minLevel

\* Gate 2 passes: not (richness < config.minRichness)
passesRichnessGate(richness, tier) ==
  richness.num * 100 >= TIER_CONFIG[tier].minRichness * richness.den

\* variant: Math.min is missing, the bonus is 1 + richnessExcess * 2
richnessBonusUncapped(richness, tier) ==
  [num |-> 50 * richness.den
             + (100 * richness.num - TIER_CONFIG[tier].minRichness * richness.den),
   den |-> 50 * richness.den]

\* richnessBonus = 1 + Math.min(richnessExcess * 2, 0.5), as a fraction:
\* richnessExcess * 2 = (100 num - minRichness den) / (50 den)
richnessBonus(richness, tier) ==
  LET excess2 == 100 * richness.num - TIER_CONFIG[tier].minRichness * richness.den
      cap == 25 * richness.den
  IN [num |-> 50 * richness.den + (IF excess2 < cap THEN excess2 ELSE cap),
      den |-> 50 * richness.den]

\* finalChance = baseChance * richnessBonus * streakMultiplier, in thousandths,
\* as a fraction
finalChance(richness, tier, multiplier) ==
  LET bonus == richnessBonus(richness, tier)
  IN [num |-> TIER_CONFIG[tier].baseChance * bonus.num * multiplier,
      den |-> bonus.den * 100]

\* rng() < finalChance, for rng() = k/1000: k * den < num
rollSucceeds(k, chance) == k <= (chance.num - 1) \div chance.den

\* variant: a failed roll falls through to the lower tiers
afterFailedRollFallThrough(tiers) == Tail(tiers)
\* the tiers still to try once a roll has failed: `break`, none
afterFailedRoll(tiers) == <<>>

\* variant: a failed gate ends the tier loop
afterGateFailureBreak(tiers) == <<>>
\* the tiers still to try once Gate 1 or Gate 2 has failed: `continue`, the rest
afterGateFailure(tiers) == Tail(tiers)

\* The tier loop of one cell, from draw number d on.  The result tells which
\* tiers had Gates 1-2 tested (gated), which were rolled for (rolled), the
\* chance of each roll (chances), the rng() calls made (used) and the
\* landmark placed (hit, type), "none" when no landmark is placed.
RECURSIVE tierLoop(_, _, _, _)
tierLoop(tiers, cell, richness, d) ==
  IF tiers = <<>>
  THEN [gated |-> <<>>, rolled |-> <<>>, chances |-> <<>>, used |-> 0,
        hit |-> "none", type |-> "none"]
  ELSE LET tier == Head(tiers) IN
    IF tier \notin passedTiers
    THEN tierLoop(Tail(tiers), cell, richness, d)
    ELSE IF ~passesLevelGate(cell, tier) \/ ~passesRichnessGate(richness, tier)
    THEN LET rest == tierLoop(afterGateFailure(tiers), cell, richness, d)
         IN [rest EXCEPT !.gated = <<tier>> \o @]
    ELSE LET chance == finalChance(richness, tier, streakMultiplier) IN
      IF rollSucceeds(rngValue(d), chance)
      THEN LET tierBuildings == tierBuildingsOf(eligibleBuildingsOf(passedTiers), tier)
               building == tierBuildings[floorScaled(rngValue(d + 1), Len(tierBuildings)) + 1]
           IN [gated |-> <<tier>>, rolled |-> <<tier>>, chances |-> <<chance>>,
               used |-> 2, hit |-> tier, type |-> building.type]
      ELSE LET rest == tierLoop(afterFailedRoll(tiers), cell, richness, d + 1)
           IN [rest EXCEPT !.gated = <<tier>> \o @, !.rolled = <<tier>> \o @,
                           !.chances = <<chance>> \o @, !.used = @ + 1]

\* variant: the key of the placed landmark is not recorded
addEpicCellForgotten(cells, key) == cells

\* epicCells.add(key)
addEpicCell(cells, key) == cells \cup {key}

\* ---- the steps of one call ----
CurrentCell == shuffled[scanPos + 1]
CurrentKey == cellKey(CurrentCell.week, CurrentCell.day)
CurrentRichness == computeRichness100(CurrentCell, cellMap)
CurrentTry == tierLoop(TIER_ORDER, CurrentCell, CurrentRichness, draws)

LogEntry(kind, try) ==
  [key |-> CurrentKey, kind |-> kind, gated |-> try.gated, rolled |-> try.rolled,
   chances |-> try.chances, used |-> try.used, hit |-> try.hit,
   richness |-> CurrentRichness, drawsBefore |-> draws, placedBefore |-> placed]

NoTry == [gated |-> <<>>, rolled |-> <<>>, chances |-> <<>>, used |-> 0,
          hit |-> "none", type |-> "none"]

\* ---- what the first lines of selectEpicBuildings create ----
\* Each takes what a call before this one left in the variable.
\* variant: one generator serves every call and goes on where it was
newGeneratorDrawsShared(d) == d

\* const rng = seededRandom(epicSeed): a generator newly made from the seed,
\* which has made no draw; d draws were made from the one of the call before
newGeneratorDraws(d) == 0

\* variant: the list is kept between the calls
newPlacedKept(left) == left

\* const placed: PlacedEpicBuilding[] = []
newPlaced(left) == <<>>

\* const epicCells = new Set<string>()
newEpicCells(left) == {}

\* lines 158-179: no tier passes Gate 3, return { placed, epicCells }
EpicReturnNoTier ==
  /\ epicPc = "start"
  /\ eligibleBuildingsOf(computePassedTiers(stats)) = <<>>
  /\ cellMap' = buildCellMap(isoCells)
  /\ passedTiers' = computePassedTiers(stats)
  /\ draws' = newGeneratorDraws(draws)
  /\ placed' = newPlaced(placed)
  /\ epicCells' = newEpicCells(epicCells)
  /\ epicPc' = "done"
  /\ UNCHANGED <<isoCells, stats, biomeMap, rngStream, streakMultiplier,
                 shuffled, shuffleI, scanPos, scanLog, isoVars, auxVars>>

\* lines 158-188: some tier passes; streak multiplier, copy of the list
EpicBegin ==
  /\ epicPc = "start"
  /\ eligibleBuildingsOf(computePassedTiers(stats)) # <<>>
  /\ cellMap' = buildCellMap(isoCells)
  /\ passedTiers' = computePassedTiers(stats)
  /\ streakMultiplier' = computeStreakMultiplier(stats)
  /\ shuffled' = isoCells
  /\ shuffleI' = Len(isoCells) - 1
  /\ draws' = newGeneratorDraws(draws)
  /\ placed' = newPlaced(placed)
  /\ epicCells' = newEpicCells(epicCells)
  /\ epicPc' = "shuffle"
  /\ UNCHANGED <<isoCells, stats, biomeMap, rngStream, scanPos, scanLog, isoVars, auxVars>>

\* lines 188-191: one iteration of the Fisher-Yates loop
ShuffleStep ==
  /\ epicPc = "shuffle"
  /\ shuffleI > 0
  /\ shuffled' = swapCells(shuffled, shuffleI, floorScaled(rngValue(draws), shuffleI + 1))
  /\ draws' = draws + 1
  /\ shuffleI' = shuffleI - 1
  /\ UNCHANGED <<isoCells, stats, biomeMap, rngStream, cellMap, passedTiers,
                 streakMultiplier, scanPos, placed, epicCells, scanLog, epicPc, isoVars, auxVars>>

\* line 188: i > 0 fails, the scan loop starts
ShuffleEnd ==
  /\ epicPc = "shuffle"
  /\ shuffleI <= 0
  /\ epicPc' = "scan"
  /\ UNCHANGED <<isoCells, stats, biomeMap, rngStream, cellMap, draws, passedTiers,
                 streakMultiplier, shuffled, shuffleI, scanPos, placed, epicCells,
                 scanLog, isoVars, auxVars>>

ScanUnchanged == UNCHANGED <<isoCells, stats, biomeMap, rngStream, cellMap, passedTiers,
                             streakMultiplier, shuffled, shuffleI, isoVars, auxVars>>

\* line 193: the list is exhausted; line 246
ScanExhausted ==
  /\ epicPc = "scan"
  /\ scanPos = Len(shuffled)
  /\ epicPc' = "done"
  /\ UNCHANGED <<draws, scanPos, placed, epicCells, scanLog>>
  /\ ScanUnchanged

\* line 194: the budget is used up, break; line 246
ScanBreak ==
  /\ epicPc = "scan"
  /\ scanPos < Len(shuffled)
  /\ budgetReached(placed)
  /\ epicPc' = "done"
  /\ UNCHANGED <<draws, scanPos, placed, epicCells, scanLog>>
  /\ ScanUnchanged

\* lines 196-200: a river or pond cell, continue
ScanSkipWater ==
  /\ epicPc = "scan"
  /\ scanPos < Len(shuffled)
  /\ ~budgetReached(placed)
  /\ isWaterCell(CurrentKey)
  /\ scanPos' = scanPos + 1
  /\ scanLog' = Append(scanLog, LogEntry("water", NoTry))
  /\ UNCHANGED <<draws, placed, epicCells, epicPc>>
  /\ ScanUnchanged

\* lines 202-206: too close to a placed landmark, continue
ScanSkipTooClose ==
  /\ epicPc = "scan"
  /\ scanPos < Len(shuffled)
  /\ ~budgetReached(placed)
  /\ ~isWaterCell(CurrentKey)
  /\ tooClose(placed, CurrentCell.week, CurrentCell.day)
  /\ scanPos' = scanPos + 1
  /\ scanLog' = Append(scanLog, LogEntry("tooClose", NoTry))
  /\ UNCHANGED <<draws, placed, epicCells, epicPc>>
  /\ ScanUnchanged

ScanReachesTiers ==
  /\ epicPc = "scan"
  /\ scanPos < Len(shuffled)
  /\ ~budgetReached(placed)
  /\ ~isWaterCell(CurrentKey)
  /\ ~tooClose(placed, CurrentCell.week, CurrentCell.day)

\* lines 209-243: the tier loop ends without a roll
ScanNoTier ==
  /\ ScanReachesTiers
  /\ CurrentTry.rolled = <<>>
  /\ scanPos' = scanPos + 1
  /\ scanLog' = Append(scanLog, LogEntry("noTier", CurrentTry))
  /\ UNCHANGED <<draws, placed, epicCells, epicPc>>
  /\ ScanUnchanged

\* lines 209-243: a roll is made and fails
ScanRollFails ==
  /\ ScanReachesTiers
  /\ CurrentTry.rolled # <<>>
  /\ CurrentTry.hit = "none"
  /\ draws' = draws + CurrentTry.used
  /\ scanPos' = scanPos + 1
  /\ scanLog' = Append(scanLog, LogEntry("rollFailed", CurrentTry))
  /\ UNCHANGED <<placed, epicCells, epicPc>>
  /\ ScanUnchanged

\* lines 209-243: a roll succeeds, the landmark is pushed and its key recorded
ScanPlace ==
  /\ ScanReachesTiers
  /\ CurrentTry.hit # "none"
  /\ placed' = Append(placed, [type |-> CurrentTry.type,
                               tier |-> CurrentTry.hit,
                               week |-> CurrentCell.week,
                               day  |-> CurrentCell.day,
                               cx   |-> CurrentCell.isoX,
                               cy   |-> CurrentCell.isoY])
  /\ epicCells' = addEpicCell(epicCells, CurrentKey)
  /\ draws' = draws + CurrentTry.used
  /\ scanPos' = scanPos + 1
  /\ scanLog' = Append(scanLog, LogEntry("placed", CurrentTry))
  /\ UNCHANGED epicPc
  /\ ScanUnchanged

\* ---- inputs of the projection ----
LevelPatterns10 ==
  {<<0>>, <<9>>, <<0, 3, 9>>, <<1, 2, 4, 5, 6, 7, 8>>, <<0, 1, 2, 3, 4, 5, 6, 7, 8, 9>>}
OriginXs == {0, 60}
OriginYs == {0, 40}

PatternCells10(n, p) == [i \in 1..n |-> [level10 |-> p[((i - 1) % Len(p)) + 1]]]

IsoIdleInit ==
  /\ gridCells = <<>>
  /\ originX = 0
  /\ originY = 0
  /\ isoResult = <<>>
  /\ isoPc = "idle"

EpicIdleInit ==
  /\ isoCells = <<>>
  /\ stats = [total |-> 0, longestStreak |-> 0, currentStreak |-> 0]
  /\ biomeMap = [defined |-> FALSE, at |-> <<>>]
  /\ rngStream = <<0>>
  /\ cellMap = <<>>
  /\ draws = 0
  /\ passedTiers = {}
  /\ streakMultiplier = 100
  /\ shuffled = <<>>
  /\ shuffleI = 0
  /\ scanPos = 0
  /\ placed = <<>>
  /\ epicCells = {}
  /\ scanLog = <<>>
  /\ epicPc = "idle"

LevelIdleInit ==
  /\ lvCountA = 0
  /\ lvCountB = 0
  /\ lvMaxCount = 0
  /\ lvLevelA = -1
  /\ lvLevelB = -1
  /\ lvPoolA = [types |-> <<>>, chance |-> 0]
  /\ lvPoolB = [types |-> <<>>, chance |-> 0]
  /\ lvPc = "idle"

AssetIdleInit ==
  /\ asCells = <<>>
  /\ asStream = <<0>>
  /\ asCellMap = <<>>
  /\ asDraws = 0
  /\ asPos = 0
  /\ assets = <<>>
  /\ asLog = <<>>
  /\ asPc = "idle"

\* the stages that create a generator
STAGES == {"landmarks", "assets", "clouds", "celestials"}

\* the entry of a stage that has not created its generator
NoSeed == [started |-> FALSE, hashed |-> FALSE, base |-> 0, salt |-> ""]

SeedIdleInit ==
  /\ masterSeed = 0
  /\ stageSeed = [st \in STAGES |-> NoSeed]

\* the value of firstReturn before the first call has returned
NoReturn == [returned |-> FALSE, placed |-> <<>>, epicCells |-> {}]

TwiceIdleInit ==
  /\ callNo = 0
  /\ firstReturn = NoReturn

WaterfallIdleInit ==
  /\ wfCells = <<>>
  /\ wfBiome = <<>>
  /\ wfSelected = <<>>
  /\ wfPos = 0
  /\ animIdx = 0
  /\ wfParts = <<>>
  /\ wfPc = "idle"

SelectIdleInit ==
  /\ seItems = <<>>
  /\ seMax = 0
  /\ seI = 0
  /\ seResult = <<>>
  /\ sePc = "idle"

ComponentsIdleInit ==
  /\ fcLevels = <<>>
  /\ fcIndex = <<>>
  /\ fcUf = [parent |-> <<>>, rank |-> <<>>, size |-> <<>>]
  /\ fcPos = 0
  /\ fcGroups = <<>>
  /\ fcPc = "idle"

BiomeIdleInit ==
  /\ bmWeeks = 0
  /\ bmDays = 0
  /\ bmNoise = <<0>>
  /\ bmRivers = <<>>
  /\ bmMap = <<>>
  /\ bmPc = "idle"

AuxIdleInit ==
  /\ LevelIdleInit
  /\ AssetIdleInit
  /\ SeedIdleInit
  /\ TwiceIdleInit
  /\ BiomeIdleInit
  /\ WaterfallIdleInit
  /\ SelectIdleInit
  /\ ComponentsIdleInit

IsoInit ==
  /\ \E n \in 0..MaxCells, p \in LevelPatterns10 : gridCells = PatternCells10(n, p)
  /\ originX \in OriginXs
  /\ originY \in OriginYs
  /\ isoResult = <<>>
  /\ isoPc = "call"
  /\ EpicIdleInit
  /\ AuxIdleInit

\* the call toIsoCells(cells, palette, originX, originY)
CallToIsoCells ==
  /\ isoPc = "call"
  /\ isoResult' = toIsoCells(gridCells, HEIGHTS, originX, originY)
  /\ isoPc' = "done"
  /\ UNCHANGED <<gridCells, originX, originY, epicVars, auxVars>>

IsoNext == CallToIsoCells

SpecIso == IsoInit /\ [][IsoNext]_vars

(***************************************************************************)
(* Claims about toIsoCells, checked under SpecIso                          *)
(***************************************************************************)
DrawSum(c) == c.week + c.day

\* C8: the array toIsoCells returns has week + day non-decreasing along the
\* array, and week non-decreasing among cells of equal week + day.
C8_DrawOrder ==
  isoPc = "done" =>
    \A i, j \in 1..Len(isoResult) :
      i < j =>
        /\ DrawSum(isoResult[i]) <= DrawSum(isoResult[j])
        /\ (DrawSum(isoResult[i]) = DrawSum(isoResult[j])
              => isoResult[i].week <= isoResult[j].week)

\* the sort had work to do: a cell pushed later (week 1, day 0) comes out
\* before a cell pushed earlier (week 0, day 6), and two cells tie on the sum
C8_Witness ==
  /\ isoPc = "done"
  /\ \E i, j \in 1..Len(isoResult) :
       /\ i < j
       /\ isoResult[i].week = 1 /\ isoResult[i].day = 0
       /\ isoResult[j].week = 0 /\ isoResult[j].day = 6
  /\ \E i, j \in 1..Len(isoResult) :
       /\ i < j
       /\ DrawSum(isoResult[i]) = DrawSum(isoResult[j])
       /\ isoResult[i].week < isoResult[j].week

\* C9: n input cells give n output cells; the i-th input cell (from 0) gets
\* week = floor(i / 7) and day = i mod 7, and no (week, day) occurs twice.
C9_OneCellPerPosition ==
  isoPc = "done" =>
    /\ Len(isoResult) = Len(gridCells)
    /\ \A i \in 0..(Len(gridCells) - 1) :
         \E k \in 1..Len(isoResult) :
           /\ isoResult[k].week = i \div 7
           /\ isoResult[k].day = i % 7
           /\ isoResult[k].level10 = gridCells[i + 1].level10
    /\ \A k, m \in 1..Len(isoResult) :
         (isoResult[k].week = isoResult[m].week /\ isoResult[k].day = isoResult[m].day)
           => k = m

\* a list that ends inside its third week
C9_Witness ==
  /\ isoPc = "done"
  /\ Len(gridCells) = 15
  /\ Len(isoResult) = 15
  /\ \E k \in 1..Len(isoResult) : isoResult[k].week = 2 /\ isoResult[k].day = 0

\* C10: every cell has isoX = originX + (week - day) * 7 and
\* isoY = originY + (week + day) * 3, whatever its level and height.
C10_Projection ==
  isoPc = "done" =>
    \A k \in 1..Len(isoResult) :
      /\ isoResult[k].isoX = originX + (isoResult[k].week - isoResult[k].day) * 7
      /\ isoResult[k].isoY = originY + (isoResult[k].week + isoResult[k].day) * 3

\* two cells of different level and height, off both axes, with a non-zero origin
C10_Witness ==
  /\ isoPc = "done"
  /\ originX # 0 /\ originY # 0
  /\ \E k, m \in 1..Len(isoResult) :
       /\ isoResult[k].week > 0 /\ isoResult[k].day > 0
       /\ isoResult[k].height # isoResult[m].height
       /\ isoResult[k].level10 # isoResult[m].level10

(***************************************************************************)
(* Inputs of selectEpicBuildings                                           *)
(***************************************************************************)
\* level100 of the grid cells, repeated along the cell list
LevelPatterns100 == {<<99>>, <<90>>, <<0>>, <<99, 30>>, <<95, 60, 99>>}

PatternCells100(n, p) == [i \in 1..n |-> [level100 |-> p[((i - 1) % Len(p)) + 1]]]

EpicSizes == {0, 1, EpicCells}

EpicStats ==
  { [total |-> 0,    longestStreak |-> 0,  currentStreak |-> 0],
    [total |-> 250,  longestStreak |-> 3,  currentStreak |-> 0],
    [total |-> 100,  longestStreak |-> 10, currentStreak |-> 8],
    [total |-> 600,  longestStreak |-> 20, currentStreak |-> 10],
    [total |-> 1500, longestStreak |-> 40, currentStreak |-> 35] }

\* every (week, day) of a grid of n cells in whole weeks
GridKeys(n) == {cellKey(w, d) : w \in 0..(numWeeksOf(n) - 1), d \in 0..(DAYS_PER_WEEK - 1)}

\* biome maps over the whole grid: a river along day 3; a pond in the corner
\* of week 0 with a river cell in week 1
BiomeMaps(n) ==
  { NoBiomeMap,
    BiomeMapOf([k \in GridKeys(n) |-> [isRiver |-> k[2] = 3, isPond |-> FALSE]]),
    BiomeMapOf([k \in GridKeys(n) |-> [isRiver |-> (k[1] = 1 /\ k[2] = 5),
                                       isPond  |-> (k[1] = 0 /\ k[2] <= 1)]]) }

RngValues == {0, 20, 500, 999}

\* a grid of 50 cells of level 10 and the value 0.58 of rng(): the first swap
\* of the shuffle takes Math.floor(0.58 * 50), a product that lies below 29
\* in doubles
LongShuffleCells == toIsoCells100(PatternCells100(50, <<10>>), 0, 0)
LongShuffleStats == [total |-> 1500, longestStreak |-> 40, currentStreak |-> 35]
LongShuffleRngValues == {580}

EpicInit ==
  /\ \/ /\ \E n \in EpicSizes, p \in LevelPatterns100 :
            /\ isoCells = toIsoCells100(PatternCells100(n, p), 0, 0)
            /\ biomeMap \in BiomeMaps(n)
        /\ stats \in EpicStats
        /\ rngStream \in [1..StreamLen -> RngValues]
     \/ /\ isoCells = LongShuffleCells
        /\ biomeMap = NoBiomeMap
        /\ stats = LongShuffleStats
        /\ rngStream \in [1..StreamLen -> LongShuffleRngValues]
  /\ cellMap = <<>>
  /\ draws = 0
  /\ passedTiers = {}
  /\ streakMultiplier = 100
  /\ shuffled = <<>>
  /\ shuffleI = 0
  /\ scanPos = 0
  /\ placed = <<>>
  /\ epicCells = {}
  /\ scanLog = <<>>
  /\ epicPc = "start"
  /\ IsoIdleInit
  /\ AuxIdleInit

EpicNext ==
  \/ EpicReturnNoTier
  \/ EpicBegin
  \/ ShuffleStep
  \/ ShuffleEnd
  \/ ScanExhausted
  \/ ScanBreak
  \/ ScanSkipWater
  \/ ScanSkipTooClose
  \/ ScanNoTier
  \/ ScanRollFails
  \/ ScanPlace

SpecEpic == EpicInit /\ [][EpicNext]_vars

(***************************************************************************)
(* Claims about selectEpicBuildings, checked under SpecEpic                *)
(***************************************************************************)
Placed == {placed[i] : i \in 1..Len(placed)}
Scanned == {scanLog[i] : i \in 1..Len(scanLog)}
\* the entries of cells that got as far as the tier loop
Tried == {e \in Scanned : e.kind \in {"noTier", "rollFailed", "placed"}}
CellAt(key) == cellMap[key]
RichnessAt(key) == computeRichness100(cellMap[key], cellMap)
Distance(w1, d1, w2, d2) == Abs(w1 - w2) + Abs(d1 - d2)
\* Gates 1 and 2 of a tier, for the cell at a key
GatesHold(key, tier) ==
  LET richness == RichnessAt(key)
  IN /\ CellAt(key).level100 >= TIER_CONFIG[tier].minLevel
     /\ richness.num * 100 >= TIER_CONFIG[tier].minRichness * richness.den
\* the tiers that pass Gate 3, in the order legendary, epic, rare
PassedInOrder == SelectSeq(TIER_ORDER, LAMBDA t : statsGate(t, stats))

\* C1: selectEpicBuildings never holds, and so never returns, more than 3
\* placed landmarks.
C1_Budget == Len(placed) <= 3

\* the call returned with 3 landmarks while a cell it had not reached would
\* still have been a candidate (dry, far enough, passing a tier's gates)
C1_Witness ==
  /\ epicPc = "done"
  /\ Len(placed) = 3
  /\ \E k \in (scanPos + 1)..Len(shuffled) :
       /\ ~isWaterCell(cellKey(shuffled[k].week, shuffled[k].day))
       /\ \A p \in Placed : Distance(p.week, p.day, shuffled[k].week, shuffled[k].day) >= 3
       /\ \E t \in passedTiers : GatesHold(cellKey(shuffled[k].week, shuffled[k].day), t)

\* C2: at every point of the scan any two distinct placed landmarks are at
\* Manhattan distance >= 3, and no cell was accepted at distance 0, 1 or 2
\* from a landmark placed before it.
C2_AntiClustering ==
  /\ \A i, j \in 1..Len(placed) :
       i # j => Distance(placed[i].week, placed[i].day,
                         placed[j].week, placed[j].day) >= 3
  /\ \A e \in Scanned :
       e.kind = "placed" =>
         \A i \in 1..Len(e.placedBefore) :
           Distance(e.placedBefore[i].week, e.placedBefore[i].day,
                    e.key[1], e.key[2]) >= 3

\* two landmarks stand, and a cell that passes a tier's gates was skipped at
\* distance exactly 2 from one of them
C2_Witness ==
  /\ Len(placed) >= 2
  /\ \E e \in Scanned :
       /\ e.kind = "tooClose"
       /\ \E t \in passedTiers : GatesHold(e.key, t)
       /\ \E i \in 1..Len(e.placedBefore) :
            Distance(e.placedBefore[i].week, e.placedBefore[i].day,
                     e.key[1], e.key[2]) = 2
       /\ \A i \in 1..Len(e.placedBefore) :
            Distance(e.placedBefore[i].week, e.placedBefore[i].day,
                     e.key[1], e.key[2]) >= 2

\* C3: every placed landmark of tier T is on a cell with level >= T's
\* minLevel and richness >= T's minRichness, and T's statsGate holds.
C3_GateSoundness ==
  \A p \in Placed :
    LET richness == RichnessAt(cellKey(p.week, p.day))
    IN /\ CellAt(cellKey(p.week, p.day)).level100 >= TIER_CONFIG[p.tier].minLevel
       /\ richness.num * 100 >= TIER_CONFIG[p.tier].minRichness * richness.den
       /\ statsGate(p.tier, stats)

\* a legendary landmark stands, in a run where every tier passes Gate 3 and
\* another cell was turned down by Gates 1-2 of every tier
C3_Witness ==
  /\ \E p \in Placed : p.tier = "legendary"
  /\ \E e \in Scanned : e.kind = "noTier" /\ Len(e.gated) = 3

NoTierPassesGate3 == \A t \in {"legendary", "epic", "rare"} : ~statsGate(t, stats)

\* C4: when no tier's statsGate passes, no landmark is ever placed and the
\* occupied-cell set stays empty, up to and including the return.
C4_NoEligibleTier ==
  NoTierPassesGate3 => (placed = <<>> /\ epicCells = {})

\* the call has returned for statistics passing no gate, on a grid of
\* max-level cells
C4_Witness ==
  /\ epicPc = "done"
  /\ NoTierPassesGate3
  /\ Len(isoCells) >= 14
  /\ \A i \in 1..Len(isoCells) : isoCells[i].level100 = 99

\* C5: with a biome map supplied, no placed landmark is on a cell whose
\* biome context has isRiver or isPond set.
C5_NoLandmarkOnWater ==
  biomeMap.defined =>
    \A p \in Placed :
      cellKey(p.week, p.day) \in DOMAIN biomeMap.at =>
        /\ ~biomeMap.at[cellKey(p.week, p.day)].isRiver
        /\ ~biomeMap.at[cellKey(p.week, p.day)].isPond

\* a landmark stands, and a pond cell and a river cell that pass a tier's
\* gates were both skipped
C5_Witness ==
  /\ biomeMap.defined
  /\ placed # <<>>
  /\ \E e \in Scanned :
       /\ e.kind = "water"
       /\ biomeMap.at[e.key].isPond
       /\ \E t \in passedTiers : GatesHold(e.key, t)
  /\ \E e \in Scanned :
       /\ e.kind = "water"
       /\ biomeMap.at[e.key].isRiver
       /\ \E t \in passedTiers : GatesHold(e.key, t)

\* C6 as claimed: Gates 1-2 are tested only against the first tier that
\* passed Gate 3, and a cell failing them for that tier gets no landmark.
C6_OnlyFirstPassedTier ==
  \A e \in Tried :
    /\ e.gated = <<PassedInOrder[1]>>
    /\ (~GatesHold(e.key, PassedInOrder[1]) => e.hit = "none")

\* the tiers that passed Gate 3, in order, up to and including the first one
\* whose Gates 1-2 the cell passes; all of them when it passes none
GatedPrefix(key) ==
  LET hits == {k \in 1..Len(PassedInOrder) : GatesHold(key, PassedInOrder[k])}
  IN IF hits = {} THEN PassedInOrder
     ELSE SubSeq(PassedInOrder, 1, CHOOSE k \in hits : \A m \in hits : k <= m)

\* C6 (amended): Gates 1-2 are tested against the tiers that passed Gate 3 in
\* the order legendary, epic, rare until the cell passes both for one of
\* them; a cell failing them for a tier is tried against the next lower
\* tier, the roll is made for the first tier whose gates it passes, and it
\* gets no roll and no landmark only when it fails them for every such tier.
C6_FirstTierPassingAllGates ==
  \A e \in Tried :
    LET prefix == GatedPrefix(e.key)
        last == prefix[Len(prefix)]
    IN /\ e.gated = prefix
       /\ IF GatesHold(e.key, last)
          THEN e.rolled = <<last>> /\ e.hit \in {"none", last}
          ELSE e.rolled = <<>> /\ e.hit = "none"

\* a cell failed Gate 1 or 2 for legendary and for epic and got a rare landmark
C6_Witness ==
  \E e \in Scanned :
    /\ e.kind = "placed"
    /\ e.gated = <<"legendary", "epic", "rare">>
    /\ e.hit = "rare"

\* C7: at most one placement roll is made per scanned cell; a failed roll
\* costs one draw and leaves the cell without a landmark.
C7_OneRollPerCell ==
  \A e \in Scanned :
    /\ Len(e.rolled) <= 1
    /\ (e.kind = "rollFailed" => (e.used = 1 /\ e.hit = "none"))
    /\ e.kind \in {"water", "tooClose", "noTier"} => e.rolled = <<>>

\* a legendary roll failed on a cell that also passes Gates 1-3 of epic and
\* rare, and the scan went on to another cell
C7_Witness ==
  \E i \in 1..Len(scanLog) :
    /\ scanLog[i].kind = "rollFailed"
    /\ scanLog[i].rolled = <<"legendary">>
    /\ {"epic", "rare"} \subseteq passedTiers
    /\ GatesHold(scanLog[i].key, "epic")
    /\ GatesHold(scanLog[i].key, "rare")
    /\ i < Len(scanLog)
    /\ scanLog[i + 1].key # scanLog[i].key
    /\ scanLog[i + 1].drawsBefore = scanLog[i].drawsBefore + 1

(***************************************************************************)
(* theme-redesign.md: computeLevel10, contribution count -> level 0..9     *)
(* The ratio count / Math.max(maxCount, 1) is compared exactly: ratio <= t *)
(* with t in hundredths is count * 100 <= t * Math.max(maxCount, 1).       *)
(***************************************************************************)
\* Math.max(maxCount, 1)
clampMaxCount(maxCount) == IF maxCount > 1 THEN maxCount ELSE 1

\* variant: the ratio <= 0.40 test reads ratio >= 0.40
levelOfRatioFlippedTest(count, m) ==
  IF count * 100 <= 5 * m THEN 1
  ELSE IF count * 100 <= 10 * m THEN 2
  ELSE IF count * 100 <= 18 * m THEN 3
  ELSE IF count * 100 <= 28 * m THEN 4
  ELSE IF count * 100 >= 40 * m THEN 5
  ELSE IF count * 100 <= 52 * m THEN 6
  ELSE IF count * 100 <= 65 * m THEN 7
  ELSE IF count * 100 <= 80 * m THEN 8
  ELSE IF count * 100 <= 92 * m THEN 9
  ELSE 9

\* variant: the final return yields 10
levelOfRatioCapTen(count, m) ==
  IF count * 100 <= 5 * m THEN 1
  ELSE IF count * 100 <= 10 * m THEN 2
  ELSE IF count * 100 <= 18 * m THEN 3
  ELSE IF count * 100 <= 28 * m THEN 4
  ELSE IF count * 100 <= 40 * m THEN 5
  ELSE IF count * 100 <= 52 * m THEN 6
  ELSE IF count * 100 <= 65 * m THEN 7
  ELSE IF count * 100 <= 80 * m THEN 8
  ELSE IF count * 100 <= 92 * m THEN 9
  ELSE 10

\* the chain of ratio tests, m = Math.max(maxCount, 1)
levelOfRatio(count, m) ==
  IF count * 100 <= 5 * m THEN 1
  ELSE IF count * 100 <= 10 * m THEN 2
  ELSE IF count * 100 <= 18 * m THEN 3
  ELSE IF count * 100 <= 28 * m THEN 4
  ELSE IF count * 100 <= 40 * m THEN 5
  ELSE IF count * 100 <= 52 * m THEN 6
  ELSE IF count * 100 <= 65 * m THEN 7
  ELSE IF count * 100 <= 80 * m THEN 8
  ELSE IF count * 100 <= 92 * m THEN 9
  ELSE 9

\* variant: the count === 0 test is missing
computeLevel10NoZeroTest(count, maxCount) ==
  levelOfRatio(count, clampMaxCount(maxCount))

computeLevel10(count, maxCount) ==
  IF count = 0 THEN 0
  ELSE levelOfRatio(count, clampMaxCount(maxCount))

(***************************************************************************)
(* assets.ts (10-level): decoration pools.  chance is in hundredths.       *)
(***************************************************************************)
LEVEL_POOLS ==
  [ ocean   |-> [types |-> <<"whale", "boat", "fish", "fish">>, chance |-> 18],
    shore   |-> [types |-> <<"bush", "bush", "fence">>, chance |-> 15],
    grass   |-> [types |-> <<"pine", "deciduous", "bush", "sheep">>, chance |-> 22],
    forest  |-> [types |-> <<"pine", "pine", "deciduous", "pine", "bush">>, chance |-> 35],
    farm    |-> [types |-> <<"sheep", "cow", "chicken", "wheat", "fence", "barn", "house">>,
                 chance |-> 35],
    village |-> [types |-> <<"house", "houseB", "windmill", "well", "sheep", "fence", "pine">>,
                 chance |-> 40],
    town    |-> [types |-> <<"house", "houseB", "church", "windmill", "house", "flag", "well">>,
                 chance |-> 50],
    city    |-> [types |-> <<"church", "house", "houseB", "house", "windmill", "flag", "barn">>,
                 chance |-> 55] ]

\* the value of the pool variables before getLevelPool has returned
NoPool == [types |-> <<>>, chance |-> 0]

\* variant: level 6 is given the town pool
getLevelPoolTownAtSix(level) ==
  IF level <= 1 THEN LEVEL_POOLS.ocean
  ELSE IF level = 2 THEN LEVEL_POOLS.shore
  ELSE IF level = 3 THEN LEVEL_POOLS.grass
  ELSE IF level <= 5 THEN LEVEL_POOLS.forest
  ELSE IF level = 6 THEN LEVEL_POOLS.town
  ELSE IF level = 7 THEN LEVEL_POOLS.village
  ELSE IF level = 8 THEN LEVEL_POOLS.town
  ELSE LEVEL_POOLS.city

\* variant: the first test reads level === 1
getLevelPoolOceanAtOne(level) ==
  IF level = 1 THEN LEVEL_POOLS.ocean
  ELSE IF level = 2 THEN LEVEL_POOLS.shore
  ELSE IF level = 3 THEN LEVEL_POOLS.grass
  ELSE IF level <= 5 THEN LEVEL_POOLS.forest
  ELSE IF level = 6 THEN LEVEL_POOLS.farm
  ELSE IF level = 7 THEN LEVEL_POOLS.village
  ELSE IF level = 8 THEN LEVEL_POOLS.town
  ELSE LEVEL_POOLS.city

getLevelPool(level) ==
  IF level <= 1 THEN LEVEL_POOLS.ocean
  ELSE IF level = 2 THEN LEVEL_POOLS.shore
  ELSE IF level = 3 THEN LEVEL_POOLS.grass
  ELSE IF level <= 5 THEN LEVEL_POOLS.forest
  ELSE IF level = 6 THEN LEVEL_POOLS.farm
  ELSE IF level = 7 THEN LEVEL_POOLS.village
  ELSE IF level = 8 THEN LEVEL_POOLS.town
  ELSE LEVEL_POOLS.city

\* ---- inputs of computeLevel10 ----
MaxCounts == {0, 1, 7, 20, 50}

LevelInit ==
  /\ lvCountA \in 0..MaxCount
  /\ lvCountB \in lvCountA..MaxCount
  /\ lvMaxCount \in MaxCounts
  /\ lvLevelA = -1
  /\ lvLevelB = -1
  /\ lvPoolA = NoPool
  /\ lvPoolB = NoPool
  /\ lvPc = "call"
  /\ IsoIdleInit
  /\ EpicIdleInit
  /\ AssetIdleInit
  /\ SeedIdleInit
  /\ TwiceIdleInit
  /\ BiomeIdleInit
  /\ WaterfallIdleInit
  /\ SelectIdleInit
  /\ ComponentsIdleInit

\* the calls computeLevel10(a, maxCount) and computeLevel10(b, maxCount)
CallComputeLevel10 ==
  /\ lvPc = "call"
  /\ lvLevelA' = computeLevel10(lvCountA, lvMaxCount)
  /\ lvLevelB' = computeLevel10(lvCountB, lvMaxCount)
  /\ lvPc' = "done"
  /\ UNCHANGED <<lvCountA, lvCountB, lvMaxCount, lvPoolA, lvPoolB, levelFrame>>

\* the calls getLevelPool(level) for the two levels computed
CallGetLevelPool ==
  /\ lvPc = "done"
  /\ lvPoolA' = getLevelPool(lvLevelA)
  /\ lvPoolB' = getLevelPool(lvLevelB)
  /\ lvPc' = "pooled"
  /\ UNCHANGED <<lvCountA, lvCountB, lvMaxCount, lvLevelA, lvLevelB, levelFrame>>

LevelNext ==
  \/ CallComputeLevel10
  \/ CallGetLevelPool

SpecLevel == LevelInit /\ [][LevelNext]_vars

(***************************************************************************)
(* Claims about computeLevel10, checked under SpecLevel                    *)
(***************************************************************************)
\* C11: for a fixed maxCount > 0 and counts a <= b, the level of a is at most
\* the level of b.
C11_LevelMonotone ==
  (lvPc = "done" /\ lvMaxCount > 0 /\ lvCountA <= lvCountB) => lvLevelA <= lvLevelB

\* both counts are positive, differ, and get different levels in the middle
\* of the scale
C11_Witness ==
  /\ lvPc = "done"
  /\ lvMaxCount = 50
  /\ 0 < lvCountA
  /\ lvCountA < lvCountB
  /\ lvLevelA = 5
  /\ lvLevelB = 9

\* C12: computeLevel10 returns 0 exactly when count = 0, for every
\* maxCount >= 0, maxCount = 0 included.
C12_ZeroIffNoCount ==
  lvPc = "done" =>
     /\ (lvLevelA = 0 <=> lvCountA = 0)
     /\ (lvLevelB = 0 <=> lvCountB = 0)

\* maxCount = 0: a zero count gives level 0 and a positive count does not
C12_Witness ==
  /\ lvPc = "done"
  /\ lvMaxCount = 0
  /\ lvCountA = 0
  /\ lvLevelA = 0
  /\ lvCountB > 0
  /\ lvLevelB > 0

\* C13: for every count >= 0 and maxCount >= 0, count > maxCount included,
\* computeLevel10 returns an integer in 0..9.
C13_LevelRange ==
  lvPc = "done" => (lvLevelA \in 0..9 /\ lvLevelB \in 0..9)

\* a count above maxCount is capped at level 9
C13_Witness ==
  /\ lvPc = "done"
  /\ lvMaxCount > 0
  /\ lvCountB > lvMaxCount
  /\ lvLevelB = 9

(***************************************************************************)
(* Claims about getLevelPool, checked under SpecLevel                      *)
(***************************************************************************)
\* C14 as stated: for any levels a <= b in 0..9 the chance of getLevelPool(a)
\* is not greater than the chance of getLevelPool(b).
C14_ChanceMonotone ==
  (lvPc = "pooled" /\ lvLevelA <= lvLevelB) => lvPoolA.chance <= lvPoolB.chance

\* C14 amended: the chance of getLevelPool(a) is not greater than the chance
\* of getLevelPool(b) for levels a <= b in 0..9, except for a in 0..1 and
\* b = 2, where the ocean pool's chance is the greater one.
C14_ChanceMonotoneAboveOcean ==
  (lvPc = "pooled" /\ lvLevelA <= lvLevelB) =>
     IF lvLevelA <= 1 /\ lvLevelB = 2
       THEN lvPoolA.chance > lvPoolB.chance
       ELSE lvPoolA.chance <= lvPoolB.chance

\* two different levels above the shore with pools of different chances
C14_Witness ==
  /\ lvPc = "pooled"
  /\ lvLevelA = 6
  /\ lvLevelB = 7
  /\ lvPoolA.chance < lvPoolB.chance

(***************************************************************************)
(* assets.ts (10-level): computeRichness and selectAssets                  *)
(* An offset ox or oy is written in two-thousandths: (rng() - 0.5) * 3 is  *)
(* (k - 500) * 6, (rng() - 0.5) * 1.5 is (k - 500) * 3.                    *)
(***************************************************************************)
RECURSIVE SumLevel10(_, _)
SumLevel10(keys, map) ==
  IF keys = {} THEN 0
  ELSE LET k == CHOOSE x \in keys : TRUE
       IN map[k].level10 + SumLevel10(keys \ {k}, map)

\* variant: the sum is divided by 8 * 9 whatever the number of neighbours
computeRichnessByEight(cell, map) ==
  LET around == {cellKey(cell.week + dw, cell.day + dd) : dw \in -1..1, dd \in -1..1}
                  \ {cellKey(cell.week, cell.day)}
      present == around \cap DOMAIN map
  IN IF present = {} THEN [num |-> 0, den |-> 1]
     ELSE [num |-> SumLevel10(present, map), den |-> 8 * 9]

\* neighborSum / (count * 9), or 0 when count is 0
computeRichness(cell, map) ==
  LET around == {cellKey(cell.week + dw, cell.day + dd) : dw \in -1..1, dd \in -1..1}
                  \ {cellKey(cell.week, cell.day)}
      present == around \cap DOMAIN map
  IN IF present = {} THEN [num |-> 0, den |-> 1]
     ELSE [num |-> SumLevel10(present, map), den |-> Cardinality(present) * 9]

\* the value rng() returns on its (n+1)-th call in selectAssets
assetRngValue(n) == asStream[(n % Len(asStream)) + 1]

\* The <<chance, p, q>>, chance a pool's chance in hundredths and p/q a
\* richness in lowest terms, at which the double sum pool.chance +
\* richness * 0.20 lies just above the exact sum, a whole number of
\* thousandths: rng() equal to the exact sum is below finalChance.  At every
\* other chance of a pool and richness of 1 to 8 neighbours the double
\* comparison and the exact one agree for every rng() = k/1000.
FinalChanceAboveExact ==
  { <<15, 3, 4>>, <<15, 4, 5>>, <<22, 1, 1>>, <<22, 2, 5>>, <<22, 3, 8>>,
    <<40, 1, 1>>, <<40, 1, 5>>, <<40, 1, 8>>, <<40, 2, 5>>, <<40, 3, 8>>,
    <<40, 7, 8>>, <<50, 2, 5>>, <<55, 1, 4>>, <<55, 1, 5>>, <<55, 1, 8>>,
    <<55, 2, 5>>, <<55, 3, 4>>, <<55, 4, 5>>, <<55, 7, 8>> }

\* rng() < pool.chance + richness * 0.20 for rng() = k/1000, the sum taken in
\* doubles
rollBelowFinalChance(k, pool, richness) ==
  \/ k * richness.den < 10 * pool.chance * richness.den + 200 * richness.num
  \/ /\ k * richness.den = 10 * pool.chance * richness.den + 200 * richness.num
     /\ \E e \in FinalChanceAboveExact :
          /\ e[1] = pool.chance
          /\ richness.num * e[3] = richness.den * e[2]

\* variant: the level test is missing
secondAssetGateAnyLevel(cell, richness) == 2 * richness.num > richness.den

\* richness > 0.5 && cell.level10 >= 5
secondAssetGate(cell, richness) ==
  /\ 2 * richness.num > richness.den
  /\ cell.level10 >= 5

\* the first asset pushed for a cell; d is the number of draws made before
\* its typeIdx is drawn
firstAsset(cell, pool, d) ==
  [cell |-> cell,
   type |-> pool.types[floorScaled(assetRngValue(d), Len(pool.types)) + 1],
   cx   |-> cell.isoX,
   cy   |-> cell.isoY,
   ox   |-> (assetRngValue(d + 1) - 500) * 6,
   oy   |-> (assetRngValue(d + 2) - 500) * 3]

\* the second asset pushed for a cell
secondAsset(cell, pool, d) ==
  [cell |-> cell,
   type |-> pool.types[floorScaled(assetRngValue(d), Len(pool.types)) + 1],
   cx   |-> cell.isoX,
   cy   |-> cell.isoY,
   ox   |-> (assetRngValue(d + 1) - 500) * 8,
   oy   |-> (assetRngValue(d + 2) - 500) * 4]

\* the body of the for loop for one cell, d draws having been made before:
\* the assets it pushes and the number of draws it makes
cellAssets(cell, map, d) ==
  LET pool == getLevelPool(cell.level10)
      richness == computeRichness(cell, map)
      base == [richness |-> richness, chance |-> pool.chance, roll |-> assetRngValue(d)]
  IN IF ~rollBelowFinalChance(assetRngValue(d), pool, richness)
       THEN base @@ [pushed |-> <<>>, used |-> 1, bonusRoll |-> -1]
     ELSE IF ~secondAssetGate(cell, richness)
       THEN base @@ [pushed |-> <<firstAsset(cell, pool, d + 1)>>, used |-> 4,
                     bonusRoll |-> -1]
     ELSE IF ~(assetRngValue(d + 4) < 300)
       THEN base @@ [pushed |-> <<firstAsset(cell, pool, d + 1)>>, used |-> 5,
                     bonusRoll |-> assetRngValue(d + 4)]
     ELSE base @@ [pushed |-> <<firstAsset(cell, pool, d + 1),
                                secondAsset(cell, pool, d + 5)>>,
                   used |-> 8, bonusRoll |-> assetRngValue(d + 4)]

\* ---- steps of selectAssets ----
AssetCurrentCell == asCells[asPos + 1]
AssetCurrentTry == cellAssets(AssetCurrentCell, asCellMap, asDraws)

\* const rng, const assets, and the cellMap loop
AssetsBegin ==
  /\ asPc = "start"
  /\ asCellMap' = buildCellMap(asCells)
  /\ asPc' = "loop"
  /\ UNCHANGED <<asCells, asStream, asDraws, asPos, assets, asLog, assetFrame>>

\* one iteration of for (const cell of isoCells)
AssetLoopStep(n) ==
  /\ asPc = "loop"
  /\ asPos < Len(asCells)
  /\ Len(AssetCurrentTry.pushed) = n
  /\ assets' = assets \o AssetCurrentTry.pushed
  /\ asDraws' = asDraws + AssetCurrentTry.used
  /\ asLog' = Append(asLog, [cell        |-> AssetCurrentCell,
                              richness    |-> AssetCurrentTry.richness,
                              chance      |-> AssetCurrentTry.chance,
                              roll        |-> AssetCurrentTry.roll,
                              bonusRoll   |-> AssetCurrentTry.bonusRoll,
                              used        |-> AssetCurrentTry.used,
                              pushed      |-> AssetCurrentTry.pushed])
  /\ asPos' = asPos + 1
  /\ UNCHANGED <<asCells, asStream, asCellMap, asPc, assetFrame>>

\* the roll fails: nothing is pushed
AssetCellNone == AssetLoopStep(0)
\* the roll succeeds and no second asset follows
AssetCellOne == AssetLoopStep(1)
\* the roll succeeds, the cell passes the second gate and the bonus roll
AssetCellTwo == AssetLoopStep(2)

\* return assets
AssetsReturn ==
  /\ asPc = "loop"
  /\ asPos = Len(asCells)
  /\ asPc' = "done"
  /\ UNCHANGED <<asCells, asStream, asCellMap, asDraws, asPos, assets, asLog, assetFrame>>

\* ---- inputs of selectAssets ----
AssetLevelPatterns == {<<0>>, <<9>>, <<0, 3, 9>>, <<1, 2, 4, 5, 6, 7, 8>>, <<9, 9, 2, 9, 5>>}
AssetSizes == {0, 1, AssetCells}
AssetRngValues == {0, 290, 460, 999}

\* a grass cell (chance 0.22) whose one neighbour has level 9 (richness 1),
\* and the value 0.42 of rng(): finalChance is 0.22 + 1 * 0.20, a sum that lies
\* above 0.42 in doubles
BoundaryChanceCells == toIsoCells(PatternCells10(2, <<3, 9>>), HEIGHTS, 0, 0)
BoundaryRngValues == {0, 420}

AssetInit ==
  /\ \/ /\ \E n \in AssetSizes, p \in AssetLevelPatterns :
            asCells = toIsoCells(PatternCells10(n, p), HEIGHTS, 0, 0)
        /\ asStream \in [1..StreamLen -> AssetRngValues]
     \/ /\ asCells = BoundaryChanceCells
        /\ asStream \in [1..StreamLen -> BoundaryRngValues]
  /\ asCellMap = <<>>
  /\ asDraws = 0
  /\ asPos = 0
  /\ assets = <<>>
  /\ asLog = <<>>
  /\ asPc = "start"
  /\ IsoIdleInit
  /\ EpicIdleInit
  /\ LevelIdleInit
  /\ SeedIdleInit
  /\ TwiceIdleInit
  /\ BiomeIdleInit
  /\ WaterfallIdleInit
  /\ SelectIdleInit
  /\ ComponentsIdleInit

AssetNext ==
  \/ AssetsBegin
  \/ AssetCellNone
  \/ AssetCellOne
  \/ AssetCellTwo
  \/ AssetsReturn

SpecAssets == AssetInit /\ [][AssetNext]_vars

(***************************************************************************)
(* Claims about computeRichness and selectAssets, checked under SpecAssets *)
(***************************************************************************)
\* the cells of the argument list on the 8 positions around cell c
NeighboursOf(c) ==
  {j \in 1..Len(asCells) :
     /\ asCells[j].week - c.week \in -1..1
     /\ asCells[j].day - c.day \in -1..1
     /\ ~(asCells[j].week = c.week /\ asCells[j].day = c.day)}

NeighboursAtLevel(c, l) == Cardinality({j \in NeighboursOf(c) : asCells[j].level10 = l})

\* the sum of the levels 0..9 of the neighbours of c
NeighbourLevelSum(c) ==
  NeighboursAtLevel(c, 1) + 2 * NeighboursAtLevel(c, 2) + 3 * NeighboursAtLevel(c, 3)
  + 4 * NeighboursAtLevel(c, 4) + 5 * NeighboursAtLevel(c, 5) + 6 * NeighboursAtLevel(c, 6)
  + 7 * NeighboursAtLevel(c, 7) + 8 * NeighboursAtLevel(c, 8) + 9 * NeighboursAtLevel(c, 9)

\* C15: for every cell, computeRichness is the sum of the levels of the cells
\* present on the 8 adjacent positions divided by (their number * 9), a value
\* in [0, 1], and 0 when none of the 8 positions holds a cell.
C15_Richness ==
  \A i \in 1..Len(asLog) :
     LET c == asLog[i].cell
         r == asLog[i].richness
         n == Cardinality(NeighboursOf(c))
     IN /\ r.den > 0
        /\ 0 <= r.num
        /\ r.num <= r.den
        /\ (n = 0) => r.num = 0
        /\ (n > 0) => r.num * (n * 9) = NeighbourLevelSum(c) * r.den

\* an inner cell with all 8 neighbours and an edge cell with fewer, both with
\* a richness strictly between 0 and 1
C15_Witness ==
  /\ asPc = "done"
  /\ \E i, j \in 1..Len(asLog) :
       /\ Cardinality(NeighboursOf(asLog[i].cell)) = 8
       /\ Cardinality(NeighboursOf(asLog[j].cell)) = 3
       /\ 0 < asLog[i].richness.num
       /\ asLog[i].richness.num < asLog[i].richness.den
       /\ 0 < asLog[j].richness.num
       /\ asLog[j].richness.num < asLog[j].richness.den

\* the indices of the returned assets that lie on cell c
AssetsOn(c) == {k \in 1..Len(assets) : assets[k].cell = c}

\* C16: selectAssets places at most two assets on each cell, and a second one
\* only if a first was placed on it, its richness is strictly greater than
\* 0.5 and its level is at least 5.
C16_AtMostTwoAssets ==
  \A i \in 1..Len(asLog) :
     LET c == asLog[i].cell
         r == asLog[i].richness
     IN /\ Cardinality(AssetsOn(c)) <= 2
        /\ Cardinality(AssetsOn(c)) = 2 =>
              /\ 2 * r.num > r.den
              /\ c.level10 >= 5
              /\ \E k \in AssetsOn(c) : AssetsOn(c) = {k, k + 1}

\* one run in which a cell got two assets, a cell of level at least 5 and
\* richness above 0.5 got one, and a rich cell below level 5 got one
C16_Witness ==
  /\ asPc = "done"
  /\ \E i, j, k \in 1..Len(asLog) :
       /\ Cardinality(AssetsOn(asLog[i].cell)) = 2
       /\ Cardinality(AssetsOn(asLog[j].cell)) = 1
       /\ asLog[j].cell.level10 >= 5
       /\ 2 * asLog[j].richness.num > asLog[j].richness.den
       /\ Cardinality(AssetsOn(asLog[k].cell)) = 1
       /\ asLog[k].cell.level10 < 5
       /\ 2 * asLog[k].richness.num > asLog[k].richness.den

\* a grid with at least one cell, all cells of level 0
AllZeroGrid ==
  /\ Len(asCells) > 0
  /\ \A j \in 1..Len(asCells) : asCells[j].level10 = 0

\* C17 as stated: for a grid in which every cell has level 0, selectAssets
\* places zero assets, whatever the random values.
C17_NoAssetsOnZeroGrid ==
  (asPc = "done" /\ AllZeroGrid) => assets = <<>>

\* C17 amended: for a grid in which every cell has level 0, every cell has
\* richness 0 and the ocean pool's chance 0.18; a cell gets one asset of the
\* ocean pool (whale, boat or fish) exactly when its roll is below 0.18, and
\* never a second one.
C17_OceanAssetsOnZeroGrid ==
  AllZeroGrid =>
    \A i \in 1..Len(asLog) :
       /\ asLog[i].richness.num = 0
       /\ asLog[i].chance = 18
       /\ Cardinality(AssetsOn(asLog[i].cell)) = (IF asLog[i].roll < 180 THEN 1 ELSE 0)
       /\ \A k \in AssetsOn(asLog[i].cell) : assets[k].type \in {"whale", "boat", "fish"}

\* an all-zero grid on which some cells got an asset and some did not
C17_Witness ==
  /\ asPc = "done"
  /\ AllZeroGrid
  /\ \E i, j \in 1..Len(asLog) :
       /\ Cardinality(AssetsOn(asLog[i].cell)) = 1
       /\ Cardinality(AssetsOn(asLog[j].cell)) = 0

(***************************************************************************)
(* Seeding of the stages: the argument each stage gives to seededRandom.   *)
(* A generator seed is written symbolically: the number n is               *)
(* [hashed |-> FALSE, base |-> n, salt |-> ""], and hash(String(n) + salt) *)
(* is [hashed |-> TRUE, base |-> n, salt |-> salt], so that two hashes are *)
(* equal only for equal arguments and no hash equals a plain number.       *)
(***************************************************************************)
plainSeed(n) == [started |-> TRUE, hashed |-> FALSE, base |-> n, salt |-> ""]
hashSeed(n, salt) == [started |-> TRUE, hashed |-> TRUE, base |-> n, salt |-> salt]

\* epics.ts: const epicSeed = hash(String(seed) + 'epic'); seededRandom(epicSeed)
epicSeedOf(seed) == hashSeed(seed, "epic")
\* assets.ts: seededRandom(seed)
assetSeedOf(seed) == plainSeed(seed)
\* effects.ts renderClouds: seededRandom(seed)
cloudSeedOf(seed) == plainSeed(seed)
\* effects.ts renderCelestials: seededRandom(seed + 3331)
celestialSeedOf(seed) == plainSeed(seed + 3331)

SeedInit ==
  /\ masterSeed \in 0..MaxSeed
  /\ stageSeed = [st \in STAGES |-> NoSeed]
  /\ IsoIdleInit
  /\ EpicIdleInit
  /\ LevelIdleInit
  /\ AssetIdleInit
  /\ TwiceIdleInit
  /\ BiomeIdleInit
  /\ WaterfallIdleInit
  /\ SelectIdleInit
  /\ ComponentsIdleInit

\* a stage creates its generator; the stages run once each
StartStage(st, generatorSeed) ==
  /\ ~stageSeed[st].started
  /\ stageSeed' = [stageSeed EXCEPT ![st] = generatorSeed]
  /\ UNCHANGED <<masterSeed, seedFrame>>

StartLandmarks == StartStage("landmarks", epicSeedOf(masterSeed))
StartAssets == StartStage("assets", assetSeedOf(masterSeed))
StartClouds == StartStage("clouds", cloudSeedOf(masterSeed))
StartCelestials == StartStage("celestials", celestialSeedOf(masterSeed))

SeedNext ==
  \/ StartLandmarks
  \/ StartAssets
  \/ StartClouds
  \/ StartCelestials

SpecSeed == SeedInit /\ [][SeedNext]_vars

(***************************************************************************)
(* Claim about the seeding of the stages, checked under SpecSeed           *)
(***************************************************************************)
\* C18: every stage that draws random numbers seeds its generator from the
\* master seed combined with a stage-specific salt (never the master seed as
\* it is), and no two stages start their generator from the same seed value.
C18_StageSeedsSaltedAndDistinct ==
  /\ \A st \in STAGES :
        stageSeed[st].started => stageSeed[st] # plainSeed(masterSeed)
  /\ \A st, other \in STAGES :
        (st # other /\ stageSeed[st].started /\ stageSeed[other].started)
          => stageSeed[st] # stageSeed[other]

(***************************************************************************)
(* epics.ts: two calls of selectEpicBuildings with the same arguments.     *)
(* Everything the function writes is a local of the call; the second call  *)
(* starts as the first did, with a generator newly created from the seed.  *)
(***************************************************************************)
\* variant: the generator is kept between the calls
TwiceStats ==
  { [total |-> 0,    longestStreak |-> 0,  currentStreak |-> 0],
    [total |-> 1500, longestStreak |-> 40, currentStreak |-> 35] }

TwiceInit ==
  /\ \E p \in {<<99>>, <<95, 60, 99>>} :
       isoCells = toIsoCells100(PatternCells100(EpicCells, p), 0, 0)
  /\ biomeMap \in BiomeMaps(EpicCells) \ {NoBiomeMap}
  /\ stats \in TwiceStats
  /\ rngStream \in [1..StreamLen -> RngValues]
  /\ cellMap = <<>>
  /\ draws = 0
  /\ passedTiers = {}
  /\ streakMultiplier = 100
  /\ shuffled = <<>>
  /\ shuffleI = 0
  /\ scanPos = 0
  /\ placed = <<>>
  /\ epicCells = {}
  /\ scanLog = <<>>
  /\ epicPc = "start"
  /\ callNo = 1
  /\ firstReturn = NoReturn
  /\ IsoIdleInit
  /\ LevelIdleInit
  /\ AssetIdleInit
  /\ SeedIdleInit
  /\ BiomeIdleInit
  /\ WaterfallIdleInit
  /\ SelectIdleInit
  /\ ComponentsIdleInit

\* the first call has returned { placed, epicCells }; the function is called
\* again with the same isoCells, seed, stats and biomeMap.  Whatever the first
\* call left in draws, placed, epicCells, cellMap, passedTiers,
\* streakMultiplier, shuffled and shuffleI is still there when the second
\* call starts: only the lines of the function itself replace it.  scanPos
\* and scanLog, the position of the iterator of the scan loop and the
\* record of the call's iterations, start again with the call.
EpicCallAgain ==
  /\ epicPc = "done"
  /\ callNo = 1
  /\ firstReturn' = [returned |-> TRUE, placed |-> placed, epicCells |-> epicCells]
  /\ callNo' = 2
  /\ scanPos' = 0
  /\ scanLog' = <<>>
  /\ epicPc' = "start"
  /\ UNCHANGED <<draws, placed, epicCells, cellMap, passedTiers, streakMultiplier,
                 shuffled, shuffleI>>
  /\ UNCHANGED <<isoCells, stats, biomeMap, rngStream, isoVars, levelVars, assetVars,
                 seedVars, biomeVars,
                 waterfallVars,
                 selectVars,
                 componentVars>>

TwiceNext ==
  \/ EpicNext
  \/ EpicCallAgain

SpecEpicTwice == TwiceInit /\ [][TwiceNext]_vars

(***************************************************************************)
(* Claim about repeated calls, checked under SpecEpicTwice                 *)
(***************************************************************************)
\* C19: two calls of selectEpicBuildings with the same cell list, seed,
\* statistics and biome map return the same placed landmarks in the same
\* order and the same set of occupied cells; and the second call reads
\* nothing the first has written: when its shuffle begins, its list of
\* landmarks and its set of occupied cells are empty and the list it
\* shuffles is the cell list given, whatever the first call left there.
C19_SameReturn ==
  /\ (callNo = 2 /\ epicPc = "done") =>
        /\ firstReturn.returned
        /\ placed = firstReturn.placed
        /\ epicCells = firstReturn.epicCells
  /\ (callNo = 2 /\ epicPc = "shuffle" /\ shuffleI = Len(isoCells) - 1) =>
        /\ firstReturn.returned
        /\ placed = <<>>
        /\ epicCells = {}
        /\ shuffled = isoCells

\* the second call has returned, both calls having placed landmarks after
\* rolls that failed
C19_Witness ==
  /\ callNo = 2
  /\ epicPc = "done"
  /\ Len(placed) >= 2
  /\ Len(firstReturn.placed) >= 2
  /\ \E i \in 1..Len(scanLog) : scanLog[i].kind = "rollFailed"

(***************************************************************************)
(* biomes.ts: generateBiomeMap(weeks, days, seed).                         *)
(* A value of the noise is k/1000, written as the integer k; forestDensity *)
(* is in thousandths.  Each river crosses the grid week by week, the noise *)
(* moving its day by -1, 0 or +1; a cell where a river changes its day is  *)
(* a bend.                                                                 *)
(***************************************************************************)
\* number of river paths
RIVER_COUNT == 2
\* largest number of pond cells
MAX_PONDS == 12

\* the value the noise yields for its n-th sample
noiseAt(n) == bmNoise[(n % Len(bmNoise)) + 1]

\* the change of a river's day the noise value k stands for
riverTurn(k) == IF k < 333 THEN -1 ELSE IF k < 667 THEN 0 ELSE 1

clampDay(d, days) == IF d < 0 THEN 0 ELSE IF d > days - 1 THEN days - 1 ELSE d

\* the cells of river r from week w on, the river being on day d in week w
RECURSIVE traceRiver(_, _, _, _, _)
traceRiver(r, w, d, weeks, days) ==
  IF w >= weeks THEN <<>>
  ELSE LET next == clampDay(d + riverTurn(noiseAt(r * weeks + w + 1)), days)
       IN <<[key |-> cellKey(w, d), bend |-> (w + 1 < weeks /\ next # d)]>>
            \o traceRiver(r, w + 1, next, weeks, days)

\* the cells of the rivers r .. RIVER_COUNT - 1
RECURSIVE traceRivers(_, _, _)
traceRivers(r, weeks, days) ==
  IF r >= RIVER_COUNT \/ weeks = 0 \/ days = 0 THEN <<>>
  ELSE traceRiver(r, 0, floorScaled(noiseAt(r), days), weeks, days)
         \o traceRivers(r + 1, weeks, days)

\* variant: weeks and days are counted from 1
biomeKeysFromOne(weeks, days) == {cellKey(w, d) : w \in 1..weeks, d \in 1..days}

\* one key for each cell of the grid
biomeKeys(weeks, days) == {cellKey(w, d) : w \in 0..(weeks - 1), d \in 0..(days - 1)}

riverKeys(rivers) == {rivers[i].key : i \in 1..Len(rivers)}

\* the bends of the rivers that become ponds: the first MAX_PONDS of them
pondKeys(rivers) ==
  LET bends == {i \in 1..Len(rivers) : rivers[i].bend}
      firstBends == {i \in bends : Cardinality({j \in bends : j < i}) < MAX_PONDS}
  IN {rivers[i].key : i \in firstBends}

\* variant: only the neighbours in the weeks before and after
fourNeighboursSameDay(k) == {cellKey(k[1] - 1, k[2]), cellKey(k[1] + 1, k[2])}

\* the 4-connected neighbours of a key
fourNeighbours(k) ==
  {cellKey(k[1] - 1, k[2]), cellKey(k[1] + 1, k[2]),
   cellKey(k[1], k[2] - 1), cellKey(k[1], k[2] + 1)}

\* the BiomeContext of every cell of the grid
buildBiomeMap(weeks, days, rivers) ==
  LET water == riverKeys(rivers) \cup pondKeys(rivers)
  IN [k \in biomeKeys(weeks, days) |->
        [isRiver       |-> k \in riverKeys(rivers),
         isPond        |-> k \in pondKeys(rivers),
         forestDensity |-> noiseAt(RIVER_COUNT * (weeks + 1) + k[1] * days + k[2]),
         nearWater     |-> fourNeighbours(k) \cap water # {}]]

\* ---- inputs of generateBiomeMap ----
NoiseValues == {0, 400, 700, 999}

BiomeInit ==
  /\ bmWeeks \in 0..MaxWeeks
  /\ bmDays \in 0..MaxDays
  /\ bmNoise \in [1..StreamLen -> NoiseValues]
  /\ bmRivers = <<>>
  /\ bmMap = <<>>
  /\ bmPc = "start"
  /\ IsoIdleInit
  /\ EpicIdleInit
  /\ LevelIdleInit
  /\ AssetIdleInit
  /\ SeedIdleInit
  /\ TwiceIdleInit
  /\ WaterfallIdleInit
  /\ SelectIdleInit
  /\ ComponentsIdleInit

\* the river paths are traced
BiomeTraceRivers ==
  /\ bmPc = "start"
  /\ bmRivers' = traceRivers(0, bmWeeks, bmDays)
  /\ bmPc' = "traced"
  /\ UNCHANGED <<bmWeeks, bmDays, bmNoise, bmMap, biomeFrame>>

\* ponds, forest density and near-water flags are set and the map is returned
BiomeReturn ==
  /\ bmPc = "traced"
  /\ bmMap' = buildBiomeMap(bmWeeks, bmDays, bmRivers)
  /\ bmPc' = "done"
  /\ UNCHANGED <<bmWeeks, bmDays, bmNoise, bmRivers, biomeFrame>>

BiomeNext ==
  \/ BiomeTraceRivers
  \/ BiomeReturn

SpecBiome == BiomeInit /\ [][BiomeNext]_vars

(***************************************************************************)
(* Claims about generateBiomeMap, checked under SpecBiome                  *)
(***************************************************************************)
\* C20: generateBiomeMap(W, D, seed) returns exactly W * D entries, one for
\* each (week, day) with 0 <= week < W and 0 <= day < D, and so the empty
\* map when W = 0 or D = 0.
C20_BiomeCoverage ==
  bmPc = "done" =>
     /\ Cardinality(DOMAIN bmMap) = bmWeeks * bmDays
     /\ \A w \in 0..(bmWeeks - 1), d \in 0..(bmDays - 1) : <<w, d>> \in DOMAIN bmMap
     /\ (bmWeeks = 0 \/ bmDays = 0) => DOMAIN bmMap = {}

\* a grid of several weeks and days with river and pond cells has been mapped
C20_Witness ==
  /\ bmPc = "done"
  /\ bmWeeks = MaxWeeks
  /\ bmDays = MaxDays
  /\ Cardinality(DOMAIN bmMap) = MaxWeeks * MaxDays
  /\ \E k \in DOMAIN bmMap : bmMap[k].isRiver /\ ~bmMap[k].isPond
  /\ \E k \in DOMAIN bmMap : bmMap[k].isPond

\* the keys of the returned map next to k: one week or one day apart
AdjacentInMap(k) ==
  {n \in DOMAIN bmMap :
     \/ (n[1] = k[1] /\ (n[2] = k[2] + 1 \/ n[2] = k[2] - 1))
     \/ (n[2] = k[2] /\ (n[1] = k[1] + 1 \/ n[1] = k[1] - 1))}

\* C21: in the returned map every cell with a 4-connected neighbour marked
\* isRiver or isPond has nearWater = true, so every river cell with an
\* in-grid neighbour has a neighbour with nearWater, isRiver or isPond.
C21_NearWater ==
  bmPc = "done" =>
    \A k \in DOMAIN bmMap :
       /\ (\E n \in AdjacentInMap(k) : bmMap[n].isRiver \/ bmMap[n].isPond)
             => bmMap[k].nearWater
       /\ (bmMap[k].isRiver /\ AdjacentInMap(k) # {})
             => \E n \in AdjacentInMap(k) :
                   bmMap[n].nearWater \/ bmMap[n].isRiver \/ bmMap[n].isPond

\* a dry cell above or below a river cell is near water, and another cell of
\* the same map is not
C21_Witness ==
  /\ bmPc = "done"
  /\ \E k, n, far \in DOMAIN bmMap :
       /\ bmMap[k].isRiver
       /\ n[1] = k[1]
       /\ n[2] = k[2] + 1
       /\ ~bmMap[n].isRiver
       /\ ~bmMap[n].isPond
       /\ bmMap[n].nearWater
       /\ \A m \in AdjacentInMap(n) \ {k} : ~bmMap[m].isRiver /\ ~bmMap[m].isPond
       /\ ~bmMap[far].nearWater

(***************************************************************************)
(* Claim about the block heights, checked under SpecIso                    *)
(***************************************************************************)
\* C22: the height toIsoCells assigns never decreases when the level
\* increases, and a cell of level 0 gets height 0.
C22_HeightMonotone ==
  isoPc = "done" =>
    /\ \A i, j \in 1..Len(isoResult) :
          isoResult[i].level10 <= isoResult[j].level10
            => isoResult[i].height <= isoResult[j].height
    /\ \A i \in 1..Len(isoResult) :
          isoResult[i].level10 = 0 => isoResult[i].height = 0

\* a projected grid with a cell of every level 0..9, levels 5 and 6 at
\* different heights and levels 0 and 1 at the same height
C22_Witness ==
  /\ isoPc = "done"
  /\ \A l \in 0..9 : \E i \in 1..Len(isoResult) : isoResult[i].level10 = l
  /\ \E i, j \in 1..Len(isoResult) :
       /\ isoResult[i].level10 = 5
       /\ isoResult[j].level10 = 6
       /\ isoResult[i].height < isoResult[j].height
  /\ \E i, j \in 1..Len(isoResult) :
       /\ isoResult[i].level10 = 0
       /\ isoResult[j].level10 = 1
       /\ isoResult[i].height = isoResult[j].height

(***************************************************************************)
(* Further claims about selectEpicBuildings, checked under SpecEpic        *)
(***************************************************************************)
\* C23: once the third landmark is placed, no step of selectEpicBuildings
\* takes a further cell, draws a random value or places a landmark.
C23_StopAfterThird ==
  [][Len(placed) >= MAX_EPIC_BUDGET =>
       /\ scanPos' = scanPos
       /\ scanLog' = scanLog
       /\ draws' = draws
       /\ placed' = placed
       /\ epicCells' = epicCells]_vars

\* the function has returned three landmarks with cells of the shuffled list
\* left unexamined
C23_Witness ==
  /\ epicPc = "done"
  /\ Len(placed) = MAX_EPIC_BUDGET
  /\ scanPos + 2 <= Len(shuffled)

\* the types of the EPIC_BUILDINGS entries of one tier
TypesOfTier(tier) ==
  {EPIC_BUILDINGS[b].type : b \in {x \in 1..Len(EPIC_BUILDINGS) : EPIC_BUILDINGS[x].tier = tier}}

\* C24: every placed landmark's building type is the type of an
\* EPIC_BUILDINGS entry whose tier is the landmark's tier.
C24_TypeOfTier ==
  \A i \in 1..Len(placed) : placed[i].type \in TypesOfTier(placed[i].tier)

\* landmarks of two tiers stand, one with the first building of its tier
\* (variant draw 0) and one with the last (variant draw 0.999)
C24_Witness ==
  \E i, j \in 1..Len(placed) :
     /\ placed[i].tier # placed[j].tier
     /\ placed[i].type = tierBuildingsOf(EPIC_BUILDINGS, placed[i].tier)[1].type
     /\ LET last == tierBuildingsOf(EPIC_BUILDINGS, placed[j].tier)
        IN placed[j].type = last[Len(last)].type

\* the richness bonus behind a logged final chance, as the fraction
\* num/den: finalChance = baseChance * bonus * streakMultiplier
BonusOf(chance, tier) ==
  [num |-> chance.num \div (TIER_CONFIG[tier].baseChance * streakMultiplier),
   den |-> chance.den \div 100]

\* C25: whenever a roll is made, the richness bonus is
\* 1 + min((richness - minRichness) * 2, 0.5) and lies in [1, 1.5], the final
\* chance is at most 1.5 * baseChance * streakMultiplier and is below 1.
C25_BonusBounds ==
  \A e \in Tried : \A r \in 1..Len(e.rolled) :
     LET tier == e.rolled[r]
         chance == e.chances[r]
         bonus == BonusOf(chance, tier)
         base == TIER_CONFIG[tier].baseChance
         excess2 == 100 * e.richness.num - TIER_CONFIG[tier].minRichness * e.richness.den
     IN /\ chance.num = bonus.num * base * streakMultiplier
        /\ chance.den = bonus.den * 100
        /\ bonus.den = 50 * e.richness.den
        /\ bonus.num - bonus.den = (IF 4 * excess2 < 100 * e.richness.den
                                      THEN excess2 ELSE 25 * e.richness.den)
        /\ bonus.num >= bonus.den
        /\ 2 * bonus.num <= 3 * bonus.den
        /\ 2 * chance.num <= 3 * base * streakMultiplier * bonus.den
        /\ chance.num \div chance.den < 1000

\* rolls were made with a bonus strictly between 1 and 1.5 and with the
\* capped bonus 1.5, under a streak multiplier above 1
C25_Witness ==
  /\ streakMultiplier > 100
  /\ \E e, f \in Tried :
       /\ e.rolled # <<>>
       /\ f.rolled # <<>>
       /\ LET b == BonusOf(e.chances[1], e.rolled[1])
          IN b.num > b.den /\ 2 * b.num < 3 * b.den
       /\ LET c == BonusOf(f.chances[1], f.rolled[1])
          IN 2 * c.num = 3 * c.den

\* C26: at every point of the scan and in the result, the occupied-cell set
\* holds exactly the keys "week,day" of the placed landmarks, one per
\* landmark.
C26_OccupiedIsPlaced ==
  /\ epicCells = {<<placed[i].week, placed[i].day>> : i \in 1..Len(placed)}
  /\ Cardinality(epicCells) = Len(placed)

\* the scan is under way with two landmarks placed and cells skipped or
\* failed in between
C26_Witness ==
  /\ epicPc = "scan"
  /\ Len(placed) = 2
  /\ Cardinality(epicCells) = 2
  /\ Len(scanLog) > 2

\* the number of draws made while the i-th scanned cell was handled
DrawsConsumed(i) ==
  (IF i < Len(scanLog) THEN scanLog[i + 1].drawsBefore ELSE draws) - scanLog[i].drawsBefore

\* C27: during the scan a cell consumes no draw when it is skipped (river or
\* pond, too close to a placed landmark, or no tier passes its gates), one
\* draw when its roll fails and two draws when a landmark is placed.
C27_DrawsPerCell ==
  \A i \in 1..Len(scanLog) :
     /\ scanLog[i].kind \in {"water", "tooClose", "noTier"} => DrawsConsumed(i) = 0
     /\ scanLog[i].kind = "rollFailed" => DrawsConsumed(i) = 1
     /\ scanLog[i].kind = "placed" => DrawsConsumed(i) = 2

\* cells of every kind were scanned, a skipped cell coming between a placed
\* and a failed one
C27_Witness ==
  /\ \A kind \in {"water", "tooClose", "noTier", "rollFailed", "placed"} :
        \E i \in 1..Len(scanLog) : scanLog[i].kind = kind
  /\ \E i \in 2..(Len(scanLog) - 1) :
        /\ scanLog[i - 1].kind = "placed"
        /\ scanLog[i].kind \in {"water", "tooClose", "noTier"}
        /\ scanLog[i + 1].kind = "rollFailed"

(***************************************************************************)
(* effects.ts: renderWaterfalls.  The markup of a waterfall is written as  *)
(* the sequence of the kinds of its elements; a "streakAnimated" or a      *)
(* "mistAnimated" element holds one SMIL animate element, the other kinds  *)
(* hold none.                                                              *)
(***************************************************************************)
\* edgeRiverCells.slice(0, 2)
MAX_WATERFALLS == 2
\* for (let s = 0; s < 3; s++)
STREAKS == 3
\* animIdx < 4
ANIMATE_BUDGET == 4
\* cell.week === 51
LAST_WEEK == 51

\* the predicate of isoCells.filter(...)
isEdgeRiverCell(cell, biome) ==
  LET key == cellKey(cell.week, cell.day)
  IN /\ key \in DOMAIN biome
     /\ biome[key].isRiver
     /\ (cell.week = 0 \/ cell.week = LAST_WEEK \/ cell.day = 0 \/ cell.day = 6)

edgeRiverCellsOf(cells, biome) == SelectSeq(cells, LAMBDA c : isEdgeRiverCell(c, biome))

\* edgeRiverCells.slice(0, 2)
sliceSelected(edge) ==
  SubSeq(edge, 1, IF Len(edge) < MAX_WATERFALLS THEN Len(edge) ELSE MAX_WATERFALLS)

\* the streaks s .. STREAKS - 1 of one waterfall, a being animIdx before
\* streak s: their kinds and animIdx after them
RECURSIVE streaksFrom(_, _)
streaksFrom(s, a) ==
  IF s >= STREAKS THEN [kinds |-> <<>>, animIdx |-> a]
  ELSE IF a < ANIMATE_BUDGET
    THEN LET rest == streaksFrom(s + 1, a + 1)
         IN [rest EXCEPT !.kinds = <<"streakAnimated">> \o @]
    ELSE LET rest == streaksFrom(s + 1, a)
         IN [rest EXCEPT !.kinds = <<"streakStatic">> \o @]

\* const mistSvg = animIdx < 4 ? (animated) : (static); animIdx is not changed
mistKind(a) == IF a < ANIMATE_BUDGET THEN "mistAnimated" ELSE "mistStatic"

\* the elements of one waterfall, a being animIdx before it
waterfallElements(a) ==
  LET streaks == streaksFrom(0, a)
  IN [kinds   |-> <<"body">> \o streaks.kinds \o <<"spray", "spray", "spray">>
                    \o <<mistKind(streaks.animIdx)>>,
      animIdx |-> streaks.animIdx]

\* ---- steps of renderWaterfalls ----
\* no edge river cell: return ''
WaterfallsReturnEmpty ==
  /\ wfPc = "start"
  /\ edgeRiverCellsOf(wfCells, wfBiome) = <<>>
  /\ wfPc' = "done"
  /\ UNCHANGED <<wfCells, wfBiome, wfSelected, wfPos, animIdx, wfParts, waterfallFrame>>

\* const selected, const parts, let animIdx = 0
WaterfallsBegin ==
  /\ wfPc = "start"
  /\ edgeRiverCellsOf(wfCells, wfBiome) # <<>>
  /\ wfSelected' = sliceSelected(edgeRiverCellsOf(wfCells, wfBiome))
  /\ wfParts' = <<>>
  /\ animIdx' = 0
  /\ wfPc' = "loop"
  /\ UNCHANGED <<wfCells, wfBiome, wfPos, waterfallFrame>>

\* one iteration of for (const cell of selected)
WaterfallStep ==
  /\ wfPc = "loop"
  /\ wfPos < Len(wfSelected)
  /\ wfParts' = Append(wfParts, [cell  |-> wfSelected[wfPos + 1],
                                  kinds |-> waterfallElements(animIdx).kinds])
  /\ animIdx' = waterfallElements(animIdx).animIdx
  /\ wfPos' = wfPos + 1
  /\ UNCHANGED <<wfCells, wfBiome, wfSelected, wfPc, waterfallFrame>>

\* return the group of the waterfalls
WaterfallsReturn ==
  /\ wfPc = "loop"
  /\ wfPos = Len(wfSelected)
  /\ wfPc' = "done"
  /\ UNCHANGED <<wfCells, wfBiome, wfSelected, wfPos, animIdx, wfParts, waterfallFrame>>

\* ---- inputs of renderWaterfalls ----
\* the weeks of the cells given: the two edge weeks and one in between
WaterfallWeeks == <<0, 25, LAST_WEEK>>

\* the cells of these weeks, in draw order
WaterfallCells ==
  SortDrawOrder([i \in 1..(Len(WaterfallWeeks) * DAYS_PER_WEEK) |->
    LET week == WaterfallWeeks[((i - 1) \div DAYS_PER_WEEK) + 1]
        day == (i - 1) % DAYS_PER_WEEK
    IN [week |-> week, day |-> day, level100 |-> 50,
        isoX |-> isoXOf(0, week, day), isoY |-> isoYOf(0, week, day)]])

WaterfallKeys == {cellKey(WaterfallWeeks[w], d) : w \in 1..Len(WaterfallWeeks),
                                                  d \in 0..(DAYS_PER_WEEK - 1)}

\* per week the day of its river cell, -1 for none
RiverDays == [1..Len(WaterfallWeeks) -> {-1, 0, 3, 6}]

riverMapOf(riverDay, keys) ==
  [k \in keys |->
     [isRiver |-> \E w \in 1..Len(WaterfallWeeks) :
                     k[1] = WaterfallWeeks[w] /\ k[2] = riverDay[w],
      isPond  |-> FALSE]]

WaterfallInit ==
  /\ wfCells \in {<<>>, WaterfallCells}
  /\ \E riverDay \in RiverDays :
       \/ wfBiome = riverMapOf(riverDay, WaterfallKeys)
       \/ wfBiome = riverMapOf(riverDay, {k \in WaterfallKeys : k[1] = 0})
  /\ wfSelected = <<>>
  /\ wfPos = 0
  /\ animIdx = 0
  /\ wfParts = <<>>
  /\ wfPc = "start"
  /\ IsoIdleInit
  /\ EpicIdleInit
  /\ LevelIdleInit
  /\ AssetIdleInit
  /\ SeedIdleInit
  /\ TwiceIdleInit
  /\ BiomeIdleInit
  /\ SelectIdleInit
  /\ ComponentsIdleInit

WaterfallNext ==
  \/ WaterfallsReturnEmpty
  \/ WaterfallsBegin
  \/ WaterfallStep
  \/ WaterfallsReturn

SpecWaterfalls == WaterfallInit /\ [][WaterfallNext]_vars

(***************************************************************************)
(* Claim about renderWaterfalls, checked under SpecWaterfalls              *)
(***************************************************************************)
\* the number of animate elements in the markup built so far
AnimateCount ==
  Cardinality({<<p, e>> \in (1..Len(wfParts)) \X (1..8) :
                 wfParts[p].kinds[e] \in {"streakAnimated", "mistAnimated"}})

\* C28: renderWaterfalls emits at most 4 animate elements in total, streak
\* and mist animations counted together, over the at most 2 waterfalls it
\* renders.
C28_AnimateBudget ==
  /\ Len(wfParts) <= 2
  /\ \A p \in 1..Len(wfParts) : Len(wfParts[p].kinds) = 8
  /\ AnimateCount <= 4

(***************************************************************************)
(* effects.ts: selectEvenly(items, max)                                    *)
(***************************************************************************)
MAX_WATER == 15
MAX_SPARKLE == 10
\* the longest list of items given
MaxItems == 20

\* a variant that divides max by items.length
stepIndexInverted(i, len, max) == (i * max) \div len

\* Math.floor(i * step) with step = items.length / max, for max > 0.  For the
\* lengths and maxima used here the double product i * step has the same
\* floor as the exact quotient i * items.length / max.
stepIndex(i, len, max) == (i * len) \div max

\* if (items.length <= max) return items
SelectEvenlyReturnItems ==
  /\ sePc = "start"
  /\ Len(seItems) <= seMax
  /\ seResult' = seItems
  /\ sePc' = "done"
  /\ UNCHANGED <<seItems, seMax, seI, selectFrame>>

\* const step, const result = [], let i = 0
SelectEvenlyBegin ==
  /\ sePc = "start"
  /\ Len(seItems) > seMax
  /\ seResult' = <<>>
  /\ seI' = 0
  /\ sePc' = "loop"
  /\ UNCHANGED <<seItems, seMax, selectFrame>>

\* result.push(items[Math.floor(i * step)]); i++
SelectEvenlyPush ==
  /\ sePc = "loop"
  /\ seI < seMax
  /\ seResult' = Append(seResult, seItems[stepIndex(seI, Len(seItems), seMax) + 1])
  /\ seI' = seI + 1
  /\ UNCHANGED <<seItems, seMax, sePc, selectFrame>>

\* return result
SelectEvenlyReturn ==
  /\ sePc = "loop"
  /\ seI >= seMax
  /\ sePc' = "done"
  /\ UNCHANGED <<seItems, seMax, seI, seResult, selectFrame>>

\* ---- inputs of selectEvenly ----
\* n distinct items, not in the order of their values
itemsOfLength(n) == [i \in 1..n |-> (i * 7) % 23]

\* the maxima of the callers (MAX_WATER, MAX_SPARKLE, 8) and small ones
SelectMaxima == {0, 1, 2, 3, 8, MAX_SPARKLE, MAX_WATER}

SelectInit ==
  /\ seItems \in {itemsOfLength(n) : n \in 0..MaxItems}
  /\ seMax \in SelectMaxima
  /\ seI = 0
  /\ seResult = <<>>
  /\ sePc = "start"
  /\ IsoIdleInit
  /\ EpicIdleInit
  /\ LevelIdleInit
  /\ AssetIdleInit
  /\ SeedIdleInit
  /\ TwiceIdleInit
  /\ BiomeIdleInit
  /\ WaterfallIdleInit
  /\ ComponentsIdleInit

SelectNext ==
  \/ SelectEvenlyReturnItems
  \/ SelectEvenlyBegin
  \/ SelectEvenlyPush
  \/ SelectEvenlyReturn

SpecSelect == SelectInit /\ [][SelectNext]_vars

(***************************************************************************)
(* Claim about selectEvenly, checked under SpecSelect                      *)
(***************************************************************************)
\* the source indices at which the items of seq are found in seItems, in the
\* order of seq (the items given are distinct)
SourceIndices(seq) ==
  [k \in 1..Len(seq) |-> CHOOSE j \in 1..Len(seItems) : seItems[j] = seq[k]]

\* C29: selectEvenly(items, max) returns exactly min(items.length, max) items
\* taken at strictly increasing source indices: no item is selected twice and
\* the order of items is kept.
C29_SelectEvenly ==
  sePc = "done" =>
    /\ Len(seResult) = IF Len(seItems) < seMax THEN Len(seItems) ELSE seMax
    /\ \A k \in 1..Len(seResult) : \E j \in 1..Len(seItems) : seItems[j] = seResult[k]
    /\ \A k \in 1..(Len(seResult) - 1) :
         SourceIndices(seResult)[k] < SourceIndices(seResult)[k + 1]

\* a call that had to drop items, returned and skipped a source index
C29_Witness ==
  /\ sePc = "done"
  /\ Len(seItems) > seMax
  /\ Len(seResult) >= 3
  /\ \E k \in 1..(Len(seResult) - 1) :
       SourceIndices(seResult)[k] + 1 < SourceIndices(seResult)[k + 1]

(***************************************************************************)
(* Constellation theme: UnionFind and findComponents.  A key `week:day`    *)
(* is written <<week, day>>; a Map is a function over its keys together    *)
(* with the sequence of the keys in insertion order.                       *)
(***************************************************************************)
\* data.weeks.length of the grids given
CompWeeks == 3
\* weekData.days.length of the grids given
CompDays == 2

constellationCellKey(week, day) == <<week, day>>

\* buildCellIndex: the keys of the cells with level > 0, week by week and day
\* by day
buildCellIndex(levels, weeks, days) ==
  SelectSeq([i \in 1..(weeks * days) |->
               constellationCellKey((i - 1) \div days, (i - 1) % days)],
            LAMBDA k : levels[k] > 0)

indexHas(index, key) == \E i \in 1..Len(index) : index[i] = key

\* new UnionFind(index.keys())
newUnionFind(keys) ==
  [parent |-> [k \in {keys[i] : i \in 1..Len(keys)} |-> k],
   rank   |-> [k \in {keys[i] : i \in 1..Len(keys)} |-> 0],
   size   |-> [k \in {keys[i] : i \in 1..Len(keys)} |-> 1]]

\* the first loop of find
RECURSIVE rootOf(_, _)
rootOf(parent, x) == IF parent[x] = x THEN x ELSE rootOf(parent, parent[x])

\* the keys the second loop of find visits: current, until it is root
RECURSIVE pathTo(_, _, _)
pathTo(parent, current, root) ==
  IF current = root THEN {}
  ELSE {current} \cup pathTo(parent, parent[current], root)

\* find(x): the root returned and parent after the path compression
find(parent, x) ==
  LET root == rootOf(parent, x)
  IN [root   |-> root,
      parent |-> [k \in DOMAIN parent |->
                    IF k \in pathTo(parent, x, root) THEN root ELSE parent[k]]]

\* a variant that links the two cells given rather than their roots
unionLinkingCells(uf, a, b) ==
  LET fa == find(uf.parent, a)
      fb == find(fa.parent, b)
  IN IF fa.root = fb.root THEN [uf EXCEPT !.parent = fb.parent]
     ELSE [uf EXCEPT !.parent = [fb.parent EXCEPT ![b] = a]]

\* union(a, b)
union(uf, a, b) ==
  LET fa == find(uf.parent, a)
      fb == find(fa.parent, b)
      ra == fa.root
      rb == fb.root
      found == [uf EXCEPT !.parent = fb.parent]
      rankA == uf.rank[ra]
      rankB == uf.rank[rb]
      sizeA == uf.size[ra]
      sizeB == uf.size[rb]
  IN IF ra = rb THEN found
     ELSE IF rankA < rankB
       THEN [found EXCEPT !.parent[ra] = rb, !.size[rb] = sizeA + sizeB]
     ELSE IF rankA > rankB
       THEN [found EXCEPT !.parent[rb] = ra, !.size[ra] = sizeA + sizeB]
     ELSE [found EXCEPT !.parent[rb] = ra, !.size[ra] = sizeA + sizeB,
                        !.rank[ra] = rankA + 1]

\* one iteration of the loop of findComponents over the cell with this key
unionNeighbours(uf, index, key) ==
  LET belowKey == constellationCellKey(key[1], key[2] + 1)
      rightKey == constellationCellKey(key[1] + 1, key[2])
      afterBelow == IF indexHas(index, belowKey) THEN union(uf, key, belowKey) ELSE uf
  IN IF indexHas(index, rightKey) THEN union(afterBelow, key, rightKey) ELSE afterBelow

\* the loop of groups() from the i-th key on: buckets holds, in insertion
\* order, a root and the keys pushed to its bucket; parent is the map the
\* calls of find leave
RECURSIVE bucketsFrom(_, _, _, _)
bucketsFrom(parent, keys, i, buckets) ==
  IF i > Len(keys) THEN [buckets |-> buckets, parent |-> parent]
  ELSE LET f == find(parent, keys[i])
           has == \E b \in 1..Len(buckets) : buckets[b].root = f.root
           made == IF has THEN buckets
                   ELSE Append(buckets, [root |-> f.root, keys |-> <<>>])
           pushed == [b \in 1..Len(made) |->
                        IF made[b].root = f.root
                        THEN [made[b] EXCEPT !.keys = Append(@, keys[i])]
                        ELSE made[b]]
       IN bucketsFrom(f.parent, keys, i + 1, pushed)

\* sort((a, b) => b.length - a.length), a stable sort: a group goes behind
\* the groups before it that are at least as long
insertBySize(sorted, group) ==
  LET n == Cardinality({k \in 1..Len(sorted) : Len(sorted[k]) >= Len(group)})
  IN SubSeq(sorted, 1, n) \o <<group>> \o SubSeq(sorted, n + 1, Len(sorted))

RECURSIVE sortBySize(_, _)
sortBySize(seq, n) ==
  IF n = 0 THEN <<>> ELSE insertBySize(sortBySize(seq, n - 1), seq[n])

\* groups(): the value returned
groups(uf, keys) ==
  LET buckets == bucketsFrom(uf.parent, keys, 1, <<>>).buckets
      values == [b \in 1..Len(buckets) |-> buckets[b].keys]
  IN sortBySize(values, Len(values))

\* groups(): uf after the call, its paths compressed by find
ufAfterGroups(uf, keys) ==
  [uf EXCEPT !.parent = bucketsFrom(uf.parent, keys, 1, <<>>).parent]

\* ---- steps of findComponents ----
\* const uf = new UnionFind(index.keys())
ComponentsBegin ==
  /\ fcPc = "start"
  /\ fcUf' = newUnionFind(fcIndex)
  /\ fcPos' = 0
  /\ fcPc' = "loop"
  /\ UNCHANGED <<fcLevels, fcIndex, fcGroups, componentFrame>>

\* one iteration of for (const cell of index.values())
ComponentsStep ==
  /\ fcPc = "loop"
  /\ fcPos < Len(fcIndex)
  /\ fcUf' = unionNeighbours(fcUf, fcIndex, fcIndex[fcPos + 1])
  /\ fcPos' = fcPos + 1
  /\ UNCHANGED <<fcLevels, fcIndex, fcGroups, fcPc, componentFrame>>

\* return uf.groups()
ComponentsReturn ==
  /\ fcPc = "loop"
  /\ fcPos = Len(fcIndex)
  /\ fcGroups' = groups(fcUf, fcIndex)
  /\ fcUf' = ufAfterGroups(fcUf, fcIndex)
  /\ fcPc' = "done"
  /\ UNCHANGED <<fcLevels, fcIndex, fcPos, componentFrame>>

\* ---- inputs of findComponents ----
ComponentKeys == {constellationCellKey(w, d) : w \in 0..(CompWeeks - 1), d \in 0..(CompDays - 1)}

\* a grid of 2 weeks x 5 days, 11011 / 01110, on which the loop leaves two
\* keys whose parent is not their root, so that groups() compresses paths
DeepTreeLevels ==
  [k \in {constellationCellKey(w, d) : w \in 0..1, d \in 0..4} |->
     IF k \in {<<0, 2>>, <<1, 0>>, <<1, 4>>} THEN 0 ELSE 1]

ComponentsInit ==
  /\ \/ /\ fcLevels \in [ComponentKeys -> {0, 1}]
        /\ fcIndex = buildCellIndex(fcLevels, CompWeeks, CompDays)
     \/ /\ fcLevels = DeepTreeLevels
        /\ fcIndex = buildCellIndex(DeepTreeLevels, 2, 5)
  /\ fcUf = [parent |-> <<>>, rank |-> <<>>, size |-> <<>>]
  /\ fcPos = 0
  /\ fcGroups = <<>>
  /\ fcPc = "start"
  /\ IsoIdleInit
  /\ EpicIdleInit
  /\ LevelIdleInit
  /\ AssetIdleInit
  /\ SeedIdleInit
  /\ TwiceIdleInit
  /\ BiomeIdleInit
  /\ WaterfallIdleInit
  /\ SelectIdleInit

ComponentsNext ==
  \/ ComponentsBegin
  \/ ComponentsStep
  \/ ComponentsReturn

SpecComponents == ComponentsInit /\ [][ComponentsNext]_vars

(***************************************************************************)
(* Claim about findComponents, checked under SpecComponents                *)
(***************************************************************************)
\* the contributing cells of the grid
Contributing == {k \in DOMAIN fcLevels : fcLevels[k] > 0}

\* same week on consecutive days, or same day in consecutive weeks
AdjacentCells(a, b) ==
  \/ a[1] = b[1] /\ (a[2] = b[2] + 1 \/ b[2] = a[2] + 1)
  \/ a[2] = b[2] /\ (a[1] = b[1] + 1 \/ b[1] = a[1] + 1)

\* the contributing cells linked to those of S by a chain of adjacent
\* contributing cells
RECURSIVE LinkedTo(_)
LinkedTo(S) ==
  LET T == S \cup {k \in Contributing : \E j \in S : AdjacentCells(j, k)}
  IN IF T = S THEN S ELSE LinkedTo(T)

\* the places <<group, position>> of the value returned
GroupPlaces ==
  UNION {{<<g, i>> : i \in 1..Len(fcGroups[g])} : g \in 1..Len(fcGroups)}

InSameGroup(a, b) ==
  \E g \in 1..Len(fcGroups) :
    /\ \E i \in 1..Len(fcGroups[g]) : fcGroups[g][i] = a
    /\ \E i \in 1..Len(fcGroups[g]) : fcGroups[g][i] = b

\* C30: findComponents returns a partition of the contributing cells (no
\* empty group, every contributing cell at exactly one place, no other
\* cell), and two cells are in the same group exactly when a chain of
\* adjacent contributing cells links them.
C30_ComponentsPartition ==
  fcPc = "done" =>
    /\ \A g \in 1..Len(fcGroups) : Len(fcGroups[g]) > 0
    /\ \A p \in GroupPlaces : fcGroups[p[1]][p[2]] \in Contributing
    /\ \A k \in Contributing :
         Cardinality({p \in GroupPlaces : fcGroups[p[1]][p[2]] = k}) = 1
    /\ \A a \in Contributing : \A b \in Contributing :
         InSameGroup(a, b) <=> b \in LinkedTo({a})

\* a grid returned with two groups, one of them linking two cells that are
\* not adjacent through a third
C30_Witness ==
  /\ fcPc = "done"
  /\ Len(fcGroups) >= 2
  /\ \E a \in Contributing : \E b \in Contributing :
       /\ a # b
       /\ ~AdjacentCells(a, b)
       /\ InSameGroup(a, b)
====
